---- MODULE Spec2Model ----
(***************************************************************************)
(* A model of dwv's DICOM parser (src/src/dicom/dicomParser.js): the       *)
(* DataReader, the element decoder (readTag, readDataElement,              *)
(* readItemDataElement, readPixelItemDataElement) and DicomParser.parse.   *)
(*                                                                         *)
(* Representation.  A JavaScript string is the sequence of its character   *)
(* codes; S(<<"D","I","C","M">>) writes a literal.  An ArrayBuffer is a     *)
(* sequence of bytes, byte offset o being element o + 1.  A typed array    *)
(* made by `new T(buffer, byteOffset, length)` is a VIEW of the buffer     *)
(* (it aliases its bytes); one made by `new T(length)` is a copy.  A plain *)
(* JavaScript object is an ordered map: the sequence of its <<key, value>> *)
(* entries in insertion order.  TLC's integers are 32-bit signed, so the   *)
(* 32-bit word 0xFFFFFFFF is written U32Max; the buffers enumerated below  *)
(* keep every other 32-bit field under 2^31.                               *)
(***************************************************************************)
EXTENDS Integers, Sequences, FiniteSets, TLC

VARIABLES buffer, pc, offset, implicit, dataLittleEndian, metaEnd,
          dataElement, lastCall, dicomElements, pixelBuffer, error,
          input, parses, returned, logical

vars == <<buffer, pc, offset, implicit, dataLittleEndian, metaEnd,
          dataElement, lastCall, dicomElements, pixelBuffer, error,
          input, parses, returned, logical>>

----------------------------------------------------------------------------
(* Strings *)

ASCII ==
  << " ", "!", "\"", "#", "$", "%", "&", "'", "(", ")", "*", "+", ",", "-", ".", "/",
     "0", "1", "2", "3", "4", "5", "6", "7", "8", "9", ":", ";", "<", "=", ">", "?",
     "@", "A", "B", "C", "D", "E", "F", "G", "H", "I", "J", "K", "L", "M", "N", "O",
     "P", "Q", "R", "S", "T", "U", "V", "W", "X", "Y", "Z", "[", "\\", "]", "^", "_",
     "grave", "a", "b", "c", "d", "e", "f", "g", "h", "i", "j", "k", "l", "m", "n", "o",
     "p", "q", "r", "s", "t", "u", "v", "w", "x", "y", "z", "{", "|", "}", "~" >>

CharCode(c) == 31 + (CHOOSE i \in 1..Len(ASCII) : ASCII[i] = c)

S(cs) == [i \in 1..Len(cs) |-> CharCode(cs[i])]

Min(a, b) == IF a < b THEN a ELSE b

\* String.prototype.substr(start, length), for start >= 0.
substr(s, start, length) == SubSeq(s, start + 1, Min(Len(s), start + length))

toUpperCase(s) == [i \in 1..Len(s) |-> IF s[i] \in 97..122 THEN s[i] - 32 ELSE s[i]]

\* Number.prototype.toString(16), for n >= 0.
RECURSIVE toString16(_)
toString16(n) ==
  LET digits == S(<<"0","1","2","3","4","5","6","7","8","9","a","b","c","d","e","f">>)
  IN  IF n < 16 THEN <<digits[n + 1]>>
      ELSE toString16(n \div 16) \o <<digits[(n % 16) + 1]>>

\* The characters String.prototype.trim removes, among the codes 0..255.
WhiteSpace == {9, 10, 11, 12, 13, 32, 160}

RECURSIVE trimLeft(_)
trimLeft(s) ==
  IF s # <<>> /\ Head(s) \in WhiteSpace THEN trimLeft(Tail(s)) ELSE s

RECURSIVE trimRight(_)
trimRight(s) ==
  IF s # <<>> /\ s[Len(s)] \in WhiteSpace THEN trimRight(SubSeq(s, 1, Len(s) - 1)) ELSE s

trim(s) == trimRight(trimLeft(s))

\* String.fromCharCode("u200B"): ToUint16(ToNumber("u200B")) = ToUint16(NaN) = 0,
\* the one-character string of code 0.
fromCharCode_u200B == <<0>>

\* cleanString: trim, then drop one trailing character equal to fromCharCode("u200B").
\* An empty string is falsy and is returned as it is.
cleanString(string) ==
  IF string = <<>> THEN string
  ELSE LET res == trim(string)
       IN  IF res # <<>> /\ <<res[Len(res)]>> = fromCharCode_u200B
           THEN SubSeq(res, 1, Len(res) - 1)
           ELSE res

\* string.match(/re/) !== null for a regular expression made of literal
\* characters and '.', unanchored: '.' matches any character but a line
\* terminator (codes 10 and 13 among 0..255).
regexMatches(re, s) ==
  \E i \in 0..(Len(s) - Len(re)) :
    \A j \in 1..Len(re) :
      IF re[j] = CharCode(".") THEN s[i + j] \notin {10, 13} ELSE s[i + j] = re[j]

----------------------------------------------------------------------------
(* DataReader *)

\* The 32-bit word 0xFFFFFFFF.
U32Max == -1

\* The host byte order: every current JavaScript host is little endian.
isNativeLittleEndian == TRUE

byteLength(buf) == Len(buf)

getUint8(buf, o) == buf[o + 1]

\* DataView.getUint16 / getInt16 / getUint32 / getInt32 (the range is checked
\* by the caller: InRange).
getUint16(buf, o, le) ==
  IF le THEN getUint8(buf, o) + 256 * getUint8(buf, o + 1)
        ELSE 256 * getUint8(buf, o) + getUint8(buf, o + 1)

getInt16(buf, o, le) ==
  LET u == getUint16(buf, o, le) IN IF u >= 32768 THEN u - 65536 ELSE u

\* A 32-bit word is kept as its bit pattern: 0x80000000 to 0xFFFFFFFF are the
\* numbers -2^31 to -1, for getUint32 as for getInt32; the type of the array
\* that holds the word says which number the pattern is.
getUint32(buf, o, le) ==
  LET lo == IF le THEN getUint16(buf, o, le) ELSE getUint16(buf, o + 2, le)
      hi == IF le THEN getUint16(buf, o + 2, le) ELSE getUint16(buf, o, le)
  IN  IF hi >= 32768 THEN (hi - 65536) * 65536 + lo ELSE hi * 65536 + lo

getInt32(buf, o, le) == getUint32(buf, o, le)

\* The bytes of one float, most significant first (the value is kept as its
\* bit pattern).
getFloat(buf, o, le, bpel) ==
  [k \in 1..bpel |-> IF le THEN getUint8(buf, o + bpel - k) ELSE getUint8(buf, o + k - 1)]

InRange(buf, o, n) == o >= 0 /\ n >= 0 /\ o + n <= byteLength(buf)

\* Typed arrays.
BYTES_PER_ELEMENT(type) ==
  CASE type \in {"Uint8Array", "Int8Array"} -> 1
    [] type \in {"Uint16Array", "Int16Array"} -> 2
    [] type \in {"Uint32Array", "Int32Array", "Float32Array"} -> 4
    [] type = "Float64Array" -> 8

View(type, o, n) ==
  [type |-> type, view |-> TRUE, byteOffset |-> o, length |-> n, data |-> <<>>]

Copy(type, d) ==
  [type |-> type, view |-> FALSE, byteOffset |-> 0, length |-> Len(d), data |-> d]

Array(d) == Copy("Array", d)

\* Element i (from 0) of a typed array that views buf: the host's reading.
ViewElement(buf, type, o, i) ==
  CASE type = "Uint8Array" -> getUint8(buf, o + i)
    [] type = "Int8Array" ->
         (IF getUint8(buf, o + i) >= 128 THEN getUint8(buf, o + i) - 256
          ELSE getUint8(buf, o + i))
    [] type = "Uint16Array" -> getUint16(buf, o + 2 * i, isNativeLittleEndian)
    [] type = "Int16Array" -> getInt16(buf, o + 2 * i, isNativeLittleEndian)
    [] type = "Uint32Array" -> getUint32(buf, o + 4 * i, isNativeLittleEndian)
    [] type = "Int32Array" -> getInt32(buf, o + 4 * i, isNativeLittleEndian)
    [] type = "Float32Array" -> getFloat(buf, o + 4 * i, isNativeLittleEndian, 4)
    [] type = "Float64Array" -> getFloat(buf, o + 8 * i, isNativeLittleEndian, 8)

\* The elements of an array value, as the buffer stands.
Elements(buf, v) ==
  IF v.view THEN [i \in 1..v.length |-> ViewElement(buf, v.type, v.byteOffset, i - 1)]
  ELSE v.data

\* DataReader.needFlip
needFlip(isLittleEndian) == isLittleEndian # isNativeLittleEndian

\* DataReader.flipArrayEndianness, on the blen bytes at o: every group of bpel
\* bytes is reversed, in the buffer itself.
flipArrayEndianness(buf, o, blen, bpel) ==
  [i \in 1..Len(buf) |->
     IF i - 1 >= o /\ i - 1 < o + blen
     THEN LET k == i - 1 - o
          IN  buf[o + (k \div bpel) * bpel + (bpel - 1 - (k % bpel)) + 1]
     ELSE buf[i]]

RangeError == "RangeError"
TypeError == "TypeError"

Thrown(e, buf) == [err |-> e, value |-> Array(<<>>), buf |-> buf]
Returned(v, buf) == [err |-> "", value |-> v, buf |-> buf]

\* DataReader.readUint8Array
readUint8Array(buf, byteOffset, size) ==
  IF InRange(buf, byteOffset, size)
  THEN Returned(View("Uint8Array", byteOffset, size), buf)
  ELSE Thrown(RangeError, buf)

\* What the scalar fallback stores in an array of the type.
ScalarRead(buf, type, o, le) ==
  CASE type = "Uint16Array" -> getInt16(buf, o, le) % 65536
    [] type = "Int16Array" -> getInt16(buf, o, le)
    [] type = "Uint32Array" -> getUint32(buf, o, le)
    [] type = "Int32Array" -> getInt32(buf, o, le)
    [] type = "Float32Array" -> getFloat(buf, o, le, 4)
    [] type = "Float64Array" -> getFloat(buf, o, le, 8)

\* DataReader.readUint16Array, readInt16Array, readUint32Array, readInt32Array,
\* readFloat32Array, readFloat64Array: one body, but for the type.
\* arraySize = size / bpel may be fractional: the constructors keep its integer
\* part, the fallback's loop runs while i < arraySize.
readTypedArray(buf, isLittleEndian, type, byteOffset, size) ==
  LET bpel == BYTES_PER_ELEMENT(type)
      n == size \div bpel
      loops == IF size % bpel = 0 THEN n ELSE n + 1
  IN  IF byteOffset % bpel = 0
      THEN IF ~InRange(buf, byteOffset, n * bpel) THEN Thrown(RangeError, buf)
           ELSE Returned(View(type, byteOffset, n),
                         IF needFlip(isLittleEndian)
                         THEN flipArrayEndianness(buf, byteOffset, n * bpel, bpel)
                         ELSE buf)
      ELSE IF loops > 0 /\ ~InRange(buf, byteOffset, loops * bpel)
           THEN Thrown(RangeError, buf)
           ELSE Returned(Copy(type, [i \in 1..n |->
                           ScalarRead(buf, type, byteOffset + bpel * (i - 1), isLittleEndian)]),
                         buf)

readUint16Array(buf, le, byteOffset, size) == readTypedArray(buf, le, "Uint16Array", byteOffset, size)
readInt16Array(buf, le, byteOffset, size) == readTypedArray(buf, le, "Int16Array", byteOffset, size)
readUint32Array(buf, le, byteOffset, size) == readTypedArray(buf, le, "Uint32Array", byteOffset, size)
readInt32Array(buf, le, byteOffset, size) == readTypedArray(buf, le, "Int32Array", byteOffset, size)
readFloat32Array(buf, le, byteOffset, size) == readTypedArray(buf, le, "Float32Array", byteOffset, size)
readFloat64Array(buf, le, byteOffset, size) == readTypedArray(buf, le, "Float64Array", byteOffset, size)

\* DataReader.readString (the range is checked by the caller).
readString(buf, byteOffset, nChars) == [i \in 1..nChars |-> getUint8(buf, byteOffset + i - 1)]

\* DataReader.readHex (the range is checked by the caller).
readHex(buf, le, byteOffset) ==
  LET str == toString16(getUint16(buf, byteOffset, le))
  IN  substr(S(<<"0","x","0","0","0","0">>), 0, 6 - Len(str)) \o toUpperCase(str)

----------------------------------------------------------------------------
(* Plain objects: ordered maps *)

EmptyObject == <<>>

HasKey(obj, k) == \E i \in 1..Len(obj) : obj[i][1] = k

Get(obj, k) == obj[CHOOSE i \in 1..Len(obj) : obj[i][1] = k][2]

\* obj[k] = v: a new key goes last, an old key keeps its place.
Put(obj, k, v) ==
  IF HasKey(obj, k)
  THEN [i \in 1..Len(obj) |-> IF obj[i][1] = k THEN <<k, v>> ELSE obj[i]]
  ELSE Append(obj, <<k, v>>)

Keys(obj) == [i \in 1..Len(obj) |-> obj[i][1]]

----------------------------------------------------------------------------
(* Tags, value representations, the dictionary *)

\* Value representations, as the two characters on the wire.
OB == S(<<"O", "B">>)
OW == S(<<"O", "W">>)
OF == S(<<"O", "F">>)
SQ == S(<<"S", "Q">>)
UN == S(<<"U", "N">>)
US == S(<<"U", "S">>)
UL == S(<<"U", "L">>)
SS == S(<<"S", "S">>)
SL == S(<<"S", "L">>)
FL == S(<<"F", "L">>)
FD == S(<<"F", "D">>)
AT == S(<<"A", "T">>)
UI == S(<<"U", "I">>)
SH == S(<<"S", "H">>)
PN == S(<<"P", "N">>)
LO == S(<<"L", "O">>)
ox == S(<<"o", "x">>)

FFFE == S(<<"0","x","F","F","F","E">>)
E000 == S(<<"0","x","E","0","0","0">>)
E00D == S(<<"0","x","E","0","0","D">>)
E0DD == S(<<"0","x","E","0","D","D">>)

\* A group or element as readHex gives it: "0x" and four hexadecimal digits.
Hex4(a, b, c, d) == S(<<"0", "x", a, b, c, d>>)

\* The part of dwv.dicom.dictionary (dictionary.js) the buffers below use:
\* <<group, element, [vr, vm, keyword]>>.
dictionary ==
  { <<Hex4("0","0","0","2"), Hex4("0","0","0","0"), <<UL, "1", "FileMetaInformationGroupLength">> >>,
    <<Hex4("0","0","0","2"), Hex4("0","0","1","0"), <<UI, "1", "TransferSyntaxUID">> >>,
    <<Hex4("0","0","0","2"), Hex4("0","0","1","2"), <<UI, "1", "ImplementationClassUID">> >>,
    <<Hex4("0","0","0","8"), Hex4("0","1","0","0"), <<SH, "1", "CodeValue">> >>,
    <<Hex4("0","0","1","0"), Hex4("0","0","1","0"), <<PN, "1", "PatientName">> >>,
    <<Hex4("0","0","1","0"), Hex4("0","0","2","0"), <<LO, "1", "PatientID">> >>,
    <<Hex4("0","0","2","8"), Hex4("0","0","1","0"), <<US, "1", "Rows">> >>,
    <<Hex4("0","0","2","8"), Hex4("0","1","0","0"), <<US, "1", "BitsAllocated">> >>,
    <<Hex4("0","0","4","0"), Hex4("0","2","7","5"), <<SQ, "1", "RequestAttributesSequence">> >>,
    <<Hex4("0","0","4","0"), Hex4("A","0","4","3"), <<SQ, "1", "ConceptNameCodeSequence">> >>,
    <<Hex4("7","F","E","0"), Hex4("0","0","1","0"), <<ox, "1", "PixelData">> >> }

\* typeof dict[group] !== "undefined" && typeof dict[group][element] !== "undefined"
dictHas(group, element) == \E d \in dictionary : d[1] = group /\ d[2] = element

dictEntry(group, element) == (CHOOSE d \in dictionary : d[1] = group /\ d[2] = element)[3]

getGroupElementKey(group, element) ==
  S(<<"x">>) \o substr(group, 2, 6) \o substr(element, 2, 6)

xFFFEE000 == S(<<"x","F","F","F","E","E","0","0","0">>)
xFFFEE00D == S(<<"x","F","F","F","E","E","0","0","D">>)
xFFFEE0DD == S(<<"x","F","F","F","E","E","0","D","D">>)
x7FE00010 == S(<<"x","7","F","E","0","0","0","1","0">>)
x00280100 == S(<<"x","0","0","2","8","0","1","0","0">>)
x00020010 == S(<<"x","0","0","0","2","0","0","1","0">>)

is32bitVLVR_NoUN(vr) ==
  vr \in {OB, OW, OF, ox, SQ}

is32bitVLVR(vr) ==
  vr \in {OB, OW, OF, ox, SQ, UN}

isTagWithVR(group, element) ==
  ~(group = FFFE /\ element \in {E000, E00D, E0DD})

getDataElementPrefixByteSize(vr) == IF is32bitVLVR(vr) THEN 12 ELSE 8

----------------------------------------------------------------------------
(* The element decoder *)

\* The value of vl that stands for the string "u/l".
UndefinedLength == -1

NoTag == [group |-> <<>>, element |-> <<>>, name |-> <<>>, endOffset |-> 0]

NoElement ==
  [tag |-> NoTag, vr |-> <<>>, vl |-> 0, value |-> Array(<<>>), endOffset |-> 0]

\* DicomParser.readTag
readTag(buf, le, offset0) ==
  IF ~InRange(buf, offset0, 2) \/ ~InRange(buf, offset0 + 2, 2)
  THEN [err |-> RangeError, tag |-> NoTag]
  ELSE LET group == readHex(buf, le, offset0)
           element == readHex(buf, le, offset0 + 2)
       IN  [err |-> "",
            tag |-> [group |-> group, element |-> element,
                     name |-> getGroupElementKey(group, element),
                     endOffset |-> offset0 + 4]]

\* String.prototype.split("\\")
RECURSIVE split(_)
split(s) ==
  IF \E i \in 1..Len(s) : s[i] = CharCode("\\")
  THEN LET i == CHOOSE i \in 1..Len(s) :
                  s[i] = CharCode("\\") /\ \A j \in 1..(i - 1) : s[j] # CharCode("\\")
       IN  <<SubSeq(s, 1, i - 1)>> \o split(SubSeq(s, i + 1, Len(s)))
  ELSE <<s>>

\* value[0] === 8, for the value of an element.
FirstIsEight(buf, v) ==
  /\ v.length > 0
  /\ CASE v.type \in {"Uint8Array", "Int8Array", "Uint16Array", "Int16Array",
                      "Uint32Array", "Int32Array"} -> Elements(buf, v)[1] = 8
       [] v.type = "Float32Array" -> Elements(buf, v)[1] = <<65, 0, 0, 0>>
       [] v.type = "Float64Array" -> Elements(buf, v)[1] = <<64, 32, 0, 0, 0, 0, 0, 0>>
       [] OTHER -> FALSE

\* typeof this.dicomElements.x00280100 !== 'undefined' &&
\* this.dicomElements.x00280100.value[0] === 8
BitsAllocatedIs8(this, buf) ==
  HasKey(this, x00280100) /\ FirstIsEight(buf, Get(this, x00280100).value)

\* The strings "(GGGG,EEEE)" of an AT value, from the 16-bit words raw.
atStrings(raw) ==
  LET pad(n) == LET str == toString16(n)
                IN  substr(S(<<"0","0","0","0">>), 0, 4 - Len(str)) \o toUpperCase(str)
  IN  [k \in 1..((Len(raw) + 1) \div 2) |->
         S(<<"(">>) \o pad(raw[2 * k - 1]) \o S(<<",">>) \o pad(raw[2 * k]) \o S(<<")">>)]

ElFail(e, buf) == [err |-> e, el |-> NoElement, buf |-> buf]

ItemFail(e, buf) ==
  [err |-> e, data |-> EmptyObject, endOffset |-> 0, isSeqDelim |-> FALSE, buf |-> buf]

ListFail(e, buf) == [err |-> e, data |-> <<>>, endOffset |-> 0, buf |-> buf]

\* In the operators below r is what a call of readDataElement (or of
\* readItemDataElement) returned: {err, el, buf} (or {err, data, endOffset,
\* isSeqDelim, buf}).

\* The element of a set of one element: Only({ F(r) : r \in {call} }) is
\* F(call), the call made once.
Only(set) == CHOOSE x \in set : TRUE

RECURSIVE readDataElement(_, _, _, _, _)
RECURSIVE readItemDataElement(_, _, _, _, _)
RECURSIVE readItemChildren(_, _, _, _, _, _, _)
RECURSIVE readItemUntilDelim(_, _, _, _, _, _)
RECURSIVE readPixelItems(_, _, _, _, _, _)
RECURSIVE readSequenceItems(_, _, _, _, _, _, _)
RECURSIVE readSequenceUntilDelim(_, _, _, _, _, _)

\* readItemDataElement, lines 644-647: one turn of while (offset < endOffset).
itemChild(this, le, endOffset, impl, itemData, r) ==
  IF r.err # "" THEN ItemFail(r.err, r.buf)
  ELSE readItemChildren(this, r.buf, le, r.el.endOffset, endOffset, impl,
                        Put(itemData, r.el.tag.name, r.el))

\* readItemDataElement, lines 641-648: while (offset < endOffset).
readItemChildren(this, buf, le, offset0, endOffset, impl, itemData) ==
  IF offset0 < endOffset
  THEN Only({ itemChild(this, le, endOffset, impl, itemData, r) :
                r \in {readDataElement(this, buf, le, offset0, impl)} })
  ELSE [err |-> "", data |-> itemData, endOffset |-> offset0, isSeqDelim |-> FALSE,
        buf |-> buf]

itemChildOrDelim_Stored(this, le, impl, itemData, r) ==
  IF r.err # "" THEN ItemFail(r.err, r.buf)
  ELSE IF r.el.tag.name = xFFFEE00D
  THEN [err |-> "", data |-> Put(itemData, r.el.tag.name, r.el),
        endOffset |-> r.el.endOffset, isSeqDelim |-> FALSE, buf |-> r.buf]
  ELSE readItemUntilDelim(this, r.buf, le, r.el.endOffset, impl,
                          Put(itemData, r.el.tag.name, r.el))

\* readItemDataElement, lines 655-661: one turn of while (!isItemDelim).
itemChildOrDelim(this, le, impl, itemData, r) ==
  IF r.err # "" THEN ItemFail(r.err, r.buf)
  ELSE IF r.el.tag.name = xFFFEE00D
  THEN [err |-> "", data |-> itemData, endOffset |-> r.el.endOffset,
        isSeqDelim |-> FALSE, buf |-> r.buf]
  ELSE readItemUntilDelim(this, r.buf, le, r.el.endOffset, impl,
                          Put(itemData, r.el.tag.name, r.el))

\* readItemDataElement, lines 653-662: while (!isItemDelim).
readItemUntilDelim(this, buf, le, offset0, impl, itemData) ==
  Only({ itemChildOrDelim(this, le, impl, itemData, r) :
           r \in {readDataElement(this, buf, le, offset0, impl)} })

\* readItemDataElement, lines 622-668, after the item element was read.
itemOf(this, le, impl, r) ==
  IF r.err # "" THEN ItemFail(r.err, r.buf)
  ELSE IF r.el.tag.name = xFFFEE0DD
  THEN [err |-> "", data |-> EmptyObject, endOffset |-> r.el.endOffset,
        isSeqDelim |-> TRUE, buf |-> r.buf]
  ELSE IF r.el.vl # UndefinedLength
  THEN IF r.el.vl # 0
       THEN readItemChildren(this, r.buf, le, r.el.endOffset - r.el.vl,
                             r.el.endOffset, impl, Put(EmptyObject, r.el.tag.name, r.el))
       ELSE [err |-> "", data |-> Put(EmptyObject, r.el.tag.name, r.el),
             endOffset |-> r.el.endOffset, isSeqDelim |-> FALSE, buf |-> r.buf]
  ELSE readItemUntilDelim(this, r.buf, le, r.el.endOffset, impl,
                          Put(EmptyObject, r.el.tag.name, r.el))

\* DicomParser.readItemDataElement
readItemDataElement(this, buf, le, offset0, impl) ==
  Only({ itemOf(this, le, impl, r) : r \in {readDataElement(this, buf, le, offset0, impl)} })

\* readPixelItemDataElement, lines 690-695: one turn of while (!isSeqDelim).
pixelItem(this, le, impl, itemData, r) ==
  IF r.err # "" THEN ListFail(r.err, r.buf)
  ELSE IF r.el.tag.name = xFFFEE0DD
  THEN [err |-> "", data |-> itemData, endOffset |-> r.el.endOffset, buf |-> r.buf]
  ELSE readPixelItems(this, r.buf, le, r.el.endOffset, impl, Append(itemData, r.el))

\* readPixelItemDataElement, lines 688-696: while (!isSeqDelim).
readPixelItems(this, buf, le, offset0, impl, itemData) ==
  Only({ pixelItem(this, le, impl, itemData, r) :
           r \in {readDataElement(this, buf, le, offset0, impl)} })

afterOffsetTable_Kept(this, le, impl, r) ==
  IF r.err # "" THEN ListFail(r.err, r.buf)
  ELSE readPixelItems(this, r.buf, le, r.el.endOffset, impl, <<r.el>>)

\* readPixelItemDataElement, lines 683-686: the first item, the basic offset
\* table, is read and not kept.
afterOffsetTable(this, le, impl, r) ==
  IF r.err # "" THEN ListFail(r.err, r.buf)
  ELSE readPixelItems(this, r.buf, le, r.el.endOffset, impl, <<>>)

\* DicomParser.readPixelItemDataElement
readPixelItemDataElement(this, buf, le, offset0, impl) ==
  Only({ afterOffsetTable(this, le, impl, r) :
           r \in {readDataElement(this, buf, le, offset0, impl)} })

\* readDataElement, lines 856-859: one turn of while (offset < sqEndOffset).
sequenceItem(this, le, sqEndOffset, impl, data, r) ==
  IF r.err # "" THEN ListFail(r.err, r.buf)
  ELSE readSequenceItems(this, r.buf, le, r.endOffset, sqEndOffset, impl,
                         Append(data, r.data))

\* readDataElement, lines 855-860: while (offset < sqEndOffset).
readSequenceItems(this, buf, le, offset0, sqEndOffset, impl, data) ==
  IF offset0 < sqEndOffset
  THEN Only({ sequenceItem(this, le, sqEndOffset, impl, data, r) :
                r \in {readItemDataElement(this, buf, le, offset0, impl)} })
  ELSE [err |-> "", data |-> data, endOffset |-> offset0, buf |-> buf]

\* readDataElement, lines 867-874: one turn of while (!isSeqDelim).
sequenceItemOrDelim(this, le, impl, data, r) ==
  IF r.err # "" THEN ListFail(r.err, r.buf)
  ELSE IF r.isSeqDelim
  THEN [err |-> "", data |-> data, endOffset |-> r.endOffset, buf |-> r.buf]
  ELSE readSequenceUntilDelim(this, r.buf, le, r.endOffset, impl, Append(data, r.data))

\* readDataElement, lines 866-875: while (!isSeqDelim).
readSequenceUntilDelim(this, buf, le, offset0, impl, data) ==
  Only({ sequenceItemOrDelim(this, le, impl, data, r) :
           r \in {readItemDataElement(this, buf, le, offset0, impl)} })

typedValue_NoAdvance(offset0, vl, r) ==
  [err |-> r.err, value |-> r.value, endOffset |-> offset0, buf |-> r.buf]

\* What a DataReader array read gave, as the value of an element of vl bytes
\* at offset0.
typedValue(offset0, vl, r) ==
  [err |-> r.err, value |-> r.value, endOffset |-> offset0 + vl, buf |-> r.buf]

\* What an item reader gave, as the value of a sequence.
listValue(r) ==
  [err |-> r.err, value |-> Array(r.data), endOffset |-> r.endOffset, buf |-> r.buf]

\* readDataElement, lines 825-841: the tags of an AT value; r is what
\* readUint16Array returned.
atValue(r) ==
  IF r.err # "" THEN r
  ELSE IF r.value.length % 2 = 1 THEN Thrown(TypeError, r.buf)
  ELSE Returned(Array(atStrings(Elements(r.buf, r.value))), r.buf)

\* readDataElement, lines 764-884: the value and the offset after it.
\* {err, value, endOffset, buf}.
readValue(this, buf, le, tag, vr, vlString, vl, offset0, impl) ==
  IF tag.name = x7FE00010 /\ vlString = UndefinedLength
  THEN Only({ listValue(r) : r \in {readPixelItemDataElement(this, buf, le, offset0, impl)} })
  ELSE IF vr \in {OW, OF, ox}
  THEN IF BitsAllocatedIs8(this, buf)
       THEN typedValue(offset0, vl, readUint8Array(buf, offset0, vl))
       ELSE typedValue(offset0, vl, readUint16Array(buf, le, offset0, vl))
  ELSE IF vr = OB THEN typedValue(offset0, vl, readUint8Array(buf, offset0, vl))
  ELSE IF vr = US THEN typedValue(offset0, vl, readUint16Array(buf, le, offset0, vl))
  ELSE IF vr = UL THEN typedValue(offset0, vl, readUint32Array(buf, le, offset0, vl))
  ELSE IF vr = SS THEN typedValue(offset0, vl, readInt16Array(buf, le, offset0, vl))
  ELSE IF vr = SL THEN typedValue(offset0, vl, readInt32Array(buf, le, offset0, vl))
  ELSE IF vr = FL THEN typedValue(offset0, vl, readFloat32Array(buf, le, offset0, vl))
  ELSE IF vr = FD THEN typedValue(offset0, vl, readFloat64Array(buf, le, offset0, vl))
  ELSE IF vr = AT
  THEN typedValue(offset0, vl, atValue(readUint16Array(buf, le, offset0, vl)))
  ELSE IF vr = UN THEN typedValue(offset0, vl, readUint8Array(buf, offset0, vl))
  ELSE IF vr = SQ
  THEN IF vlString # UndefinedLength
       THEN IF vl # 0
            THEN Only({ listValue(r) :
                          r \in {readSequenceItems(this, buf, le, offset0, offset0 + vl,
                                                   impl, <<>>)} })
            ELSE [err |-> "", value |-> Array(<<>>), endOffset |-> offset0, buf |-> buf]
       ELSE Only({ listValue(r) :
                     r \in {readSequenceUntilDelim(this, buf, le, offset0, impl, <<>>)} })
  ELSE IF InRange(buf, offset0, vl)
  THEN typedValue(offset0, vl, Returned(Array(split(readString(buf, offset0, vl))), buf))
  ELSE typedValue(offset0, vl, Thrown(RangeError, buf))

\* readDataElement, lines 887-893: the element returned; v is its value as
\* readValue gave it.
elementOf(tag, vr, vlString, v) ==
  IF v.err # "" THEN ElFail(v.err, v.buf)
  ELSE [err |-> "",
        el |-> [tag |-> tag, vr |-> vr, vl |-> vlString, value |-> v.value,
                endOffset |-> v.endOffset],
        buf |-> v.buf]

\* readDataElement, lines 756-762: vlRead is the number on the wire, the
\* value starts at offset0.
withVL(this, buf, le, impl, tag, vr, vlRead, offset0) ==
  IF vlRead = U32Max
  THEN Only({ elementOf(tag, vr, UndefinedLength, v) :
                v \in {readValue(this, buf, le, tag, vr, UndefinedLength, 0, offset0, impl)} })
  ELSE Only({ elementOf(tag, vr, vlRead, v) :
                v \in {readValue(this, buf, le, tag, vr, vlRead, vlRead, offset0, impl)} })

\* readDataElement, lines 742-754: the length, 32-bit or 16-bit, at vlOffset.
readVL(this, buf, le, impl, tag, vr, is32bit, vlOffset) ==
  IF ~InRange(buf, vlOffset, IF is32bit THEN 4 ELSE 2) THEN ElFail(RangeError, buf)
  ELSE IF is32bit
  THEN withVL(this, buf, le, impl, tag, vr, getUint32(buf, vlOffset, le), vlOffset + 4)
  ELSE withVL(this, buf, le, impl, tag, vr, getUint16(buf, vlOffset, le), vlOffset + 2)

afterTag_NoDictionary(this, buf, le, impl, tag) ==
  IF isTagWithVR(tag.group, tag.element)
  THEN IF impl
       THEN readVL(this, buf, le, impl, tag, UN, TRUE, tag.endOffset)
       ELSE IF ~InRange(buf, tag.endOffset, 2) THEN ElFail(RangeError, buf)
       ELSE IF is32bitVLVR(readString(buf, tag.endOffset, 2))
       THEN readVL(this, buf, le, impl, tag, readString(buf, tag.endOffset, 2),
                   TRUE, tag.endOffset + 4)
       ELSE readVL(this, buf, le, impl, tag, readString(buf, tag.endOffset, 2),
                   FALSE, tag.endOffset + 2)
  ELSE readVL(this, buf, le, impl, tag, UN, TRUE, tag.endOffset)

\* readDataElement, lines 719-754, once the tag is read: the VR (implicit:
\* from the dictionary, else UN; explicit: the two characters after the tag;
\* an item or a delimiter: UN) and where the length is.
afterTag(this, buf, le, impl, tag) ==
  IF isTagWithVR(tag.group, tag.element)
  THEN IF impl
       THEN readVL(this, buf, le, impl, tag,
                   IF dictHas(tag.group, tag.element)
                   THEN dictEntry(tag.group, tag.element)[1] ELSE UN,
                   TRUE, tag.endOffset)
       ELSE IF ~InRange(buf, tag.endOffset, 2) THEN ElFail(RangeError, buf)
       ELSE IF is32bitVLVR(readString(buf, tag.endOffset, 2))
       THEN readVL(this, buf, le, impl, tag, readString(buf, tag.endOffset, 2),
                   TRUE, tag.endOffset + 4)
       ELSE readVL(this, buf, le, impl, tag, readString(buf, tag.endOffset, 2),
                   FALSE, tag.endOffset + 2)
  ELSE readVL(this, buf, le, impl, tag, UN, TRUE, tag.endOffset)

\* readDataElement, lines 713-717, t being what readTag returned.
tagged(this, buf, le, impl, t) ==
  IF t.err # "" THEN ElFail(t.err, buf)
  ELSE afterTag(this, buf, le, impl, t.tag)

\* DicomParser.readDataElement: {err, el, buf}.
readDataElement(this, buf, le, offset0, impl) ==
  Only({ tagged(this, buf, le, impl, t) : t \in {readTag(buf, le, offset0)} })

----------------------------------------------------------------------------
(* Transfer syntaxes *)

\* "1.2.840.10008.1.2"
ImplicitVRLittleEndian ==
  S(<<"1",".","2",".","8","4","0",".","1","0","0","0","8",".","1",".","2">>)

Uid(suffix) == ImplicitVRLittleEndian \o S(suffix)

ExplicitVRLittleEndian == Uid(<<".","1">>)
DeflatedExplicitVRLittleEndian == Uid(<<".","1",".","9","9">>)
ExplicitVRBigEndian == Uid(<<".","2">>)
JpegBaseline50 == Uid(<<".","4",".","5","0">>)
JpegBaseline51 == Uid(<<".","4",".","5","1">>)
JpegLossless57 == Uid(<<".","4",".","5","7">>)
JpegLossless70 == Uid(<<".","4",".","7","0">>)
Mpeg2 == Uid(<<".","4",".","1","0","0">>)
Rle == Uid(<<".","5">>)
\* The regular expressions /1.2.840.10008.1.2.4.5/, ...4.6/, ...4.8/, ...4.9/
Regex45 == Uid(<<".","4",".","5">>)
Regex46 == Uid(<<".","4",".","6">>)
Regex48 == Uid(<<".","4",".","8">>)
Regex49 == Uid(<<".","4",".","9">>)

\* The value of a parameter that was not passed: equal to no string.
undefined == <<-1>>

isJpegBaselineTransferSyntax(syntax) ==
  syntax = JpegBaseline50 \/ syntax = JpegBaseline51

isJpegLosslessTransferSyntax(syntax) ==
  syntax = JpegLossless57 \/ syntax = JpegLossless70

\* The two helpers are called without an argument.
isJpegNonSupportedTransferSyntax(syntax) ==
  \/ /\ regexMatches(Regex45, syntax)
     /\ ~isJpegBaselineTransferSyntax(undefined)
     /\ ~isJpegLosslessTransferSyntax(undefined)
  \/ regexMatches(Regex46, syntax)

isJpeglsTransferSyntax(syntax) == regexMatches(Regex48, syntax)

isJpeg2000TransferSyntax(syntax) == regexMatches(Regex49, syntax)

\* parse, lines 940-986: what the transfer syntax selects.  throws is the
\* message of the Error thrown, "" when the data set is decoded.
SyntaxChoice(throws, impl, le) == [throws |-> throws, implicit |-> impl, littleEndian |-> le]

\* The messages of the Errors of parse, up to the colon: the syntax that
\* follows it is left out.
NotDicom == "Not a valid DICOM file (no magic DICM word found)"
UnsupportedDeflated == "Unsupported DICOM transfer syntax (Deflated Explicit VR)"
UnsupportedRetiredJpeg == "Unsupported DICOM transfer syntax (retired JPEG)"
UnsupportedJpegLs == "Unsupported DICOM transfer syntax (JPEG-LS)"
UnsupportedMpeg2 == "Unsupported DICOM transfer syntax (MPEG2)"
UnsupportedRle == "Unsupported DICOM transfer syntax (RLE)"
UnknownSyntax == "Unknown transfer syntax"

UnsupportedErrors ==
  {UnsupportedDeflated, UnsupportedRetiredJpeg, UnsupportedJpegLs, UnsupportedMpeg2,
   UnsupportedRle, UnknownSyntax}

selectSyntax(syntax) ==
  IF syntax = ExplicitVRLittleEndian THEN SyntaxChoice("", FALSE, TRUE)
  ELSE IF syntax = ImplicitVRLittleEndian THEN SyntaxChoice("", TRUE, TRUE)
  ELSE IF syntax = DeflatedExplicitVRLittleEndian
  THEN SyntaxChoice(UnsupportedDeflated, FALSE, TRUE)
  ELSE IF syntax = ExplicitVRBigEndian THEN SyntaxChoice("", FALSE, FALSE)
  ELSE IF isJpegBaselineTransferSyntax(syntax) THEN SyntaxChoice("", FALSE, TRUE)
  ELSE IF isJpegLosslessTransferSyntax(syntax) THEN SyntaxChoice("", FALSE, TRUE)
  ELSE IF isJpegNonSupportedTransferSyntax(syntax)
  THEN SyntaxChoice(UnsupportedRetiredJpeg, FALSE, TRUE)
  ELSE IF isJpeglsTransferSyntax(syntax) THEN SyntaxChoice(UnsupportedJpegLs, FALSE, TRUE)
  ELSE IF isJpeg2000TransferSyntax(syntax) THEN SyntaxChoice("", FALSE, TRUE)
  ELSE IF syntax = Mpeg2 THEN SyntaxChoice(UnsupportedMpeg2, FALSE, TRUE)
  ELSE IF syntax = Rle THEN SyntaxChoice(UnsupportedRle, FALSE, TRUE)
  ELSE SyntaxChoice(UnknownSyntax, FALSE, TRUE)

----------------------------------------------------------------------------
(* DicomParser.parse *)

StringVR(vr) ==
  vr \notin {OB, OW, OF, ox, SQ, UN, US, UL, SS, SL, FL, FD, AT}

\* An element's value is an array of strings: a string-class VR, and not the
\* item list of undefined-length pixel data.
IsStringValue(el) ==
  StringVR(el.vr) /\ ~(el.tag.name = x7FE00010 /\ el.vl = UndefinedLength)

IntegerArrays ==
  {"Uint8Array", "Int8Array", "Uint16Array", "Int16Array", "Uint32Array", "Int32Array"}

\* parseInt(string, 10): {nan, n}.
RECURSIVE leadingDigits(_, _)
leadingDigits(s, acc) ==
  IF s # <<>> /\ Head(s) \in 48..57
  THEN leadingDigits(Tail(s), [nan |-> FALSE, n |-> 10 * acc.n + Head(s) - 48])
  ELSE acc

parseIntString(string) ==
  LET s == trimLeft(string)
      neg == s # <<>> /\ Head(s) = CharCode("-")
      signed == s # <<>> /\ Head(s) \in {CharCode("-"), CharCode("+")}
      r == leadingDigits(IF signed THEN Tail(s) ELSE s, [nan |-> TRUE, n |-> 0])
  IN  IF neg THEN [nan |-> r.nan, n |-> 0 - r.n] ELSE r

\* parseInt(dataElement.value[0], 10).  A float is not enumerated as the
\* first element of a file and is left out (CASE has no arm for it).
parseIntFirst(buf, el) ==
  CASE el.value.length = 0 -> [nan |-> TRUE, n |-> 0]
    [] el.value.length > 0 /\ el.value.type \in IntegerArrays ->
         [nan |-> FALSE, n |-> Elements(buf, el.value)[1]]
    [] el.value.length > 0 /\ el.value.type = "Array" ->
         IF IsStringValue(el) THEN parseIntString(el.value.data[1])
         ELSE [nan |-> TRUE, n |-> 0]

\* typedArray.set(source, at) into a Uint16Array: each number modulo 2^16.
\* The items of a pixel sequence hold integer arrays.
toUint16Elements(buf, v) ==
  CASE v.type \in IntegerArrays ->
         [i \in 1..v.length |-> Elements(buf, v)[i] % 65536]
    [] v.type = "Array" /\ v.length = 0 -> <<>>

RECURSIVE concatItems_AtZero(_, _, _, _)
concatItems_AtZero(buf, items, i, pixels) ==
  IF i > Len(items) THEN pixels
  ELSE concatItems_AtZero(buf, items, i + 1,
                          Copy("Uint16Array", toUint16Elements(buf, items[i].value)))

\* parse, lines 1009-1016: the manual concatenation of the pixel items.
RECURSIVE concatItems(_, _, _, _)
concatItems(buf, items, i, pixels) ==
  IF i > Len(items) THEN pixels
  ELSE concatItems(buf, items, i + 1,
                   Copy("Uint16Array",
                        toUint16Elements(buf, pixels) \o toUint16Elements(buf, items[i].value)))

\* The arguments of a call of readDataElement by parse.
Call(reader, o, impl, le) ==
  [reader |-> reader, offset |-> o, implicit |-> impl, littleEndian |-> le]

Throw(e) ==
  /\ pc' = "error"
  /\ error' = e

ParseMagic_AnyCase ==
  /\ pc = "start"
  /\ IF ~InRange(buffer, 128, 4)
     THEN Throw(RangeError) /\ offset' = 128
     ELSE IF toUpperCase(readString(buffer, 128, 4)) # S(<<"D","I","C","M">>)
     THEN Throw(NotDicom) /\ offset' = 132
     ELSE pc' = "metaLength" /\ offset' = 132 /\ error' = error
  /\ UNCHANGED <<buffer, implicit, dataLittleEndian, metaEnd, dataElement, lastCall,
                 dicomElements, pixelBuffer>>
  /\ UNCHANGED <<input, parses, returned, logical>>

\* lines 903-916
ParseMagic ==
  /\ pc = "start"
  /\ IF ~InRange(buffer, 128, 4)
     THEN Throw(RangeError) /\ offset' = 128
     ELSE IF readString(buffer, 128, 4) # S(<<"D","I","C","M">>)
     THEN Throw(NotDicom) /\ offset' = 132
     ELSE pc' = "metaLength" /\ offset' = 132 /\ error' = error
  /\ UNCHANGED <<buffer, implicit, dataLittleEndian, metaEnd, dataElement, lastCall,
                 dicomElements, pixelBuffer>>
  /\ UNCHANGED <<input, parses, returned, logical>>

Store_NoAdvance(r) ==
  /\ buffer' = r.buf
  /\ IF r.err # ""
     THEN /\ Throw(r.err)
          /\ UNCHANGED <<offset, dataElement, dicomElements>>
     ELSE /\ dataElement' = r.el
          /\ offset' = offset
          /\ dicomElements' = Put(dicomElements, r.el.tag.name, r.el)
          /\ error' = error

\* parse, lines 920-922, 932-934, 993-995: the store of what a call of
\* readDataElement returned (r), or its exception.
Store(r) ==
  /\ buffer' = r.buf
  /\ IF r.err # ""
     THEN /\ Throw(r.err)
          /\ UNCHANGED <<offset, dataElement, dicomElements>>
     ELSE /\ dataElement' = r.el
          /\ offset' = r.el.endOffset
          /\ dicomElements' = Put(dicomElements, r.el.tag.name, r.el)
          /\ error' = error

\* One call of readDataElement by parse (lines 919, 931, 992) and the store
\* of what it returns.
ReadAndStore(reader, le, impl) ==
  /\ lastCall' = Call(reader, offset, impl, le)
  /\ \E r \in {readDataElement(dicomElements, buffer, le, offset, impl)} : Store(r)

\* lines 918-927
ParseMetaLength ==
  /\ pc = "metaLength"
  /\ ReadAndStore("meta", TRUE, FALSE)
  /\ IF error' = ""
     THEN LET metaLength == parseIntFirst(buffer', dataElement')
          IN  /\ metaEnd' = [nan |-> metaLength.nan, n |-> offset' + metaLength.n]
              /\ pc' = "meta"
     ELSE metaEnd' = metaEnd
  /\ UNCHANGED <<implicit, dataLittleEndian, pixelBuffer>>
  /\ UNCHANGED <<input, parses, returned, logical>>

MoreMeta == ~metaEnd.nan /\ offset < metaEnd.n

\* lines 928-935
ParseMetaElement ==
  /\ pc = "meta"
  /\ MoreMeta
  /\ ReadAndStore("meta", TRUE, FALSE)
  /\ IF error' = "" THEN pc' = pc ELSE TRUE
  /\ UNCHANGED <<implicit, dataLittleEndian, metaEnd, pixelBuffer>>
  /\ UNCHANGED <<input, parses, returned, logical>>

\* lines 940-986, choice being what the transfer syntax selects.
Select(choice) ==
  IF choice.throws # ""
  THEN Throw(choice.throws) /\ UNCHANGED <<implicit, dataLittleEndian>>
  ELSE /\ pc' = "data"
       /\ implicit' = choice.implicit
       /\ dataLittleEndian' = choice.littleEndian
       /\ error' = error

\* lines 937-986
ParseSyntax ==
  /\ pc = "meta"
  /\ ~MoreMeta
  /\ IF ~HasKey(dicomElements, x00020010) \/ ~IsStringValue(Get(dicomElements, x00020010))
     THEN Throw(TypeError) /\ UNCHANGED <<implicit, dataLittleEndian>>
     ELSE Select(selectSyntax(cleanString(Get(dicomElements, x00020010).value.data[1])))
  /\ UNCHANGED <<buffer, offset, metaEnd, dataElement, lastCall, dicomElements, pixelBuffer>>
  /\ UNCHANGED <<input, parses, returned, logical>>

\* lines 988-997
ParseDataElement ==
  /\ pc = "data"
  /\ offset < byteLength(buffer)
  /\ ReadAndStore("data", dataLittleEndian, implicit)
  /\ IF error' = "" THEN pc' = pc ELSE TRUE
  /\ UNCHANGED <<implicit, dataLittleEndian, metaEnd, pixelBuffer>>
  /\ UNCHANGED <<input, parses, returned, logical>>

\* lines 999-1019
ParsePixelBuffer ==
  /\ pc = "data"
  /\ ~(offset < byteLength(buffer))
  /\ pc' = "done"
  /\ pixelBuffer' =
       IF HasKey(dicomElements, x7FE00010)
       THEN LET pixelData == Get(dicomElements, x7FE00010)
            IN  IF pixelData.vl # UndefinedLength THEN pixelData.value
                ELSE concatItems(buffer, pixelData.value.data, 1, pixelBuffer)
       ELSE pixelBuffer
  /\ UNCHANGED <<buffer, offset, implicit, dataLittleEndian, metaEnd, dataElement,
                 lastCall, dicomElements, error>>
  /\ UNCHANGED <<input, parses, returned, logical>>

----------------------------------------------------------------------------
(* parse as a function: what one call gives on a parser whose element map   *)
(* is this and whose pixel buffer is pixels                                  *)

\* What parse leaves: the exception it raised (or ""), the parser's element
\* map and pixel buffer, and the buffer.
Parsed(e, this, pixels, buf) ==
  [err |-> e, dicomElements |-> this, pixelBuffer |-> pixels, buf |-> buf]

RECURSIVE parseMeta(_, _, _, _, _)
RECURSIVE parseData(_, _, _, _, _, _)

\* lines 999-1018
parsePixelBuffer(this, pixels, buf) ==
  Parsed("", this,
         IF HasKey(this, x7FE00010)
         THEN IF Get(this, x7FE00010).vl # UndefinedLength
              THEN Get(this, x7FE00010).value
              ELSE concatItems(buf, Get(this, x7FE00010).value.data, 1, pixels)
         ELSE pixels,
         buf)

\* lines 992-996: r is what readDataElement returned.
parseDataStored(this, pixels, le, impl, r) ==
  IF r.err # "" THEN Parsed(r.err, this, pixels, r.buf)
  ELSE parseData(Put(this, r.el.tag.name, r.el), pixels, r.buf, le, impl, r.el.endOffset)

\* lines 988-1018
parseData(this, pixels, buf, le, impl, offset0) ==
  IF offset0 < byteLength(buf)
  THEN parseDataStored(this, pixels, le, impl, readDataElement(this, buf, le, offset0, impl))
  ELSE parsePixelBuffer(this, pixels, buf)

\* lines 940-986: choice is what the transfer syntax selects.
parseSelected(this, pixels, buf, offset0, choice) ==
  IF choice.throws # "" THEN Parsed(choice.throws, this, pixels, buf)
  ELSE parseData(this, pixels, buf, choice.littleEndian, choice.implicit, offset0)

\* lines 937-986
parseSyntax(this, pixels, buf, offset0) ==
  IF ~HasKey(this, x00020010) \/ ~IsStringValue(Get(this, x00020010))
  THEN Parsed(TypeError, this, pixels, buf)
  ELSE parseSelected(this, pixels, buf, offset0,
                     selectSyntax(cleanString(Get(this, x00020010).value.data[1])))

\* lines 931-934: r is what readDataElement returned.
parseMetaStored(this, pixels, end, r) ==
  IF r.err # "" THEN Parsed(r.err, this, pixels, r.buf)
  ELSE parseMeta(Put(this, r.el.tag.name, r.el), pixels, r.buf, r.el.endOffset, end)

\* lines 928-986
parseMeta(this, pixels, buf, offset0, end) ==
  IF ~end.nan /\ offset0 < end.n
  THEN parseMetaStored(this, pixels, end, readDataElement(this, buf, TRUE, offset0, FALSE))
  ELSE parseSyntax(this, pixels, buf, offset0)

\* lines 920-927: r is what readDataElement returned for the group length.
parseMetaLength(this, pixels, r) ==
  IF r.err # "" THEN Parsed(r.err, this, pixels, r.buf)
  ELSE parseMeta(Put(this, r.el.tag.name, r.el), pixels, r.buf, r.el.endOffset,
                 [nan |-> parseIntFirst(r.buf, r.el).nan,
                  n |-> r.el.endOffset + parseIntFirst(r.buf, r.el).n])

\* DicomParser.parse
parse(this, pixels, buf) ==
  IF ~InRange(buf, 128, 4) THEN Parsed(RangeError, this, pixels, buf)
  ELSE IF readString(buf, 128, 4) # S(<<"D","I","C","M">>)
  THEN Parsed(NotDicom, this, pixels, buf)
  ELSE parseMetaLength(this, pixels, readDataElement(this, buf, TRUE, 132, FALSE))

\* new DicomParser().parse(buf)
parseFresh(buf) == parse(EmptyObject, Array(<<>>), buf)

\* parse has returned or raised.
ParseEnded == pc \in {"done", "error"}

\* The run of the steps of parse gives what the function gives.
StepsAgree ==
  ParseEnded /\ parses = 1 =>
    parseFresh(input) = Parsed(error, dicomElements, pixelBuffer, buffer)

----------------------------------------------------------------------------
(* The files parsed: a writer of the Part 10 layout, and the data sets tried *)

MaxElems == 1
MaxFrags == 2
MaxItems == 2

u16(le, n) == IF le THEN <<n % 256, n \div 256>> ELSE <<n \div 256, n % 256>>

u32(le, n) ==
  IF n = U32Max THEN <<255, 255, 255, 255>>
  ELSE IF le THEN u16(le, n % 65536) \o u16(le, n \div 65536)
  ELSE u16(le, n \div 65536) \o u16(le, n % 65536)

RECURSIVE Flatten(_)
Flatten(ss) == IF ss = <<>> THEN <<>> ELSE Head(ss) \o Flatten(Tail(ss))

\* The VRs a writer gives two reserved bytes and a 32-bit length.
WriterVL32 == {OB, OW, OF, SQ, UN}

\* The bytes before an element's value.  wide forces the 32-bit layout.
Header(impl, le, g, e, vr, wide, vl) ==
  u16(le, g) \o u16(le, e) \o
  (IF impl THEN u32(le, vl)
   ELSE vr \o (IF vr \in WriterVL32 \/ wide THEN <<0, 0>> \o u32(le, vl) ELSE u16(le, vl)))

\* An item or a delimiter: tag and 32-bit length.
ItemHeader(le, e, vl) == u16(le, \HFFFE) \o u16(le, e) \o u32(le, vl)

\* Logical elements.  Val: w-byte numbers (w = 1: bytes, characters); skew is
\* added to the length written, wide forces the 32-bit layout of an explicit VR.
Val(g, e, vr, w, data, skew, wide) ==
  [k |-> "val", g |-> g, e |-> e, vr |-> vr, w |-> w, data |-> data, skew |-> skew,
   wide |-> wide]

\* A sequence of items; an item is [undef, els, skew].
Sq(g, e, undef, items, skew) ==
  [k |-> "sq", g |-> g, e |-> e, undef |-> undef, items |-> items, skew |-> skew]

Item(undef, els, skew) == [undef |-> undef, els |-> els, skew |-> skew]

\* Encapsulated pixel data: items of bytes, the basic offset table first.
Pix(vr, frags) == [k |-> "pix", g |-> \H7FE0, e |-> \H0010, vr |-> vr, frags |-> frags]

\* A bare delimiter.
Delim(e) == [k |-> "delim", e |-> e]

RECURSIVE Enc(_, _, _)
RECURSIVE EncAll(_, _, _)
RECURSIVE EncItems(_, _, _)

Enc(el, impl, le) ==
  CASE el.k = "val" ->
         LET bytes == IF el.w = 1 THEN el.data
                      ELSE Flatten([i \in 1..Len(el.data) |->
                             IF el.w = 2 THEN u16(le, el.data[i]) ELSE u32(le, el.data[i])])
         IN  Header(impl, le, el.g, el.e, el.vr, el.wide, Len(bytes) + el.skew) \o bytes
    [] el.k = "sq" ->
         LET body == EncItems(el.items, impl, le)
         IN  Header(impl, le, el.g, el.e, SQ, FALSE,
                    IF el.undef THEN U32Max ELSE Len(body) + el.skew)
             \o body
             \o (IF el.undef THEN ItemHeader(le, \HE0DD, 0) ELSE <<>>)
    [] el.k = "pix" ->
         Header(impl, le, el.g, el.e, el.vr, FALSE, U32Max)
         \o Flatten([i \in 1..Len(el.frags) |->
                       ItemHeader(le, \HE000, Len(el.frags[i])) \o el.frags[i]])
         \o ItemHeader(le, \HE0DD, 0)
    [] el.k = "delim" -> ItemHeader(le, el.e, 0)

EncAll(els, impl, le) ==
  IF els = <<>> THEN <<>> ELSE Enc(Head(els), impl, le) \o EncAll(Tail(els), impl, le)

EncItems(items, impl, le) ==
  IF items = <<>> THEN <<>>
  ELSE LET it == Head(items)
           body == EncAll(it.els, impl, le)
       IN  ItemHeader(le, \HE000, IF it.undef THEN U32Max ELSE Len(body) + it.skew)
           \o body
           \o (IF it.undef THEN ItemHeader(le, \HE00D, 0) ELSE <<>>)
           \o EncItems(Tail(items), impl, le)

ZZ == S(<<"Z", "Z">>)

PatientName == Val(\H0010, \H0010, PN, 1, S(<<"D","\\","O","E">>), 0, FALSE)
BitsAllocated(n) == Val(\H0028, \H0100, US, 2, <<n>>, 0, FALSE)
Rows == Val(\H0028, \H0010, US, 2, <<512>>, 0, FALSE)
NativePixelData == Val(\H7FE0, \H0010, OW, 2, <<258, 772>>, 0, FALSE)
\* A private element whose VR no table of the parser lists, in the 16-bit layout
\* and in the 32-bit layout.
UnknownVR16 == Val(\H0009, \H0010, ZZ, 1, S(<<"A", "B">>), 0, FALSE)
UnknownVR32 == Val(\H0009, \H0010, ZZ, 1, S(<<"A", "B">>), 0, TRUE)
\* A private element of VR UN.
PrivateUN == Val(\H0009, \H0011, UN, 1, <<7, 9>>, 0, FALSE)
\* An element whose length runs past the end of the file.
Truncated == Val(\H0010, \H0020, LO, 1, S(<<"I", "D">>), 100, FALSE)

Fragment(i) == <<16 * i + 1, 16 * i + 2>>

\* The basic offset table (empty) and n fragments.
EncapsulatedPixelData(n) == Pix(OB, <<<<>>>> \o [i \in 1..n |-> Fragment(i)])

\* (0040,0275) with n items, each holding the element el.
SequenceOf(n, undefSq, undefItem, el, itemSkew) ==
  Sq(\H0040, \H0275, undefSq, [i \in 1..n |-> Item(undefItem, <<el>>, itemSkew)], itemSkew)

\* S4: a sequence in an item of a sequence, all of undefined length.
NestedSequence ==
  Sq(\H0040, \H0275, TRUE,
     <<Item(TRUE, <<Sq(\H0040, \HA043, TRUE, <<Item(TRUE, <<PatientName>>, 0)>>, 0)>>, 0)>>, 0)

Pool ==
  <<PatientName, BitsAllocated(8), BitsAllocated(16), NativePixelData,
    UnknownVR16, UnknownVR32, Truncated, NestedSequence, PrivateUN,
    Sq(\H0040, \H0275, FALSE, <<>>, 0), Sq(\H0040, \H0275, TRUE, <<>>, 0),
    \* an item that declares 2 bytes fewer than its child takes
    SequenceOf(1, FALSE, FALSE, Rows, 0 - 2),
    Delim(\HE00D), Delim(\HE0DD)>>
  \o [n \in 1..(MaxFrags + 1) |-> EncapsulatedPixelData(n - 1)]
  \o [n \in 1..MaxItems |-> SequenceOf(n, TRUE, TRUE, PatientName, 0)]
  \o [n \in 1..MaxItems |-> SequenceOf(n, FALSE, FALSE, Rows, 0)]
  \o [n \in 1..MaxItems |-> SequenceOf(n, TRUE, FALSE, Rows, 0)]

\* The data sets, as indices in the pool: nothing or one of the pool's first
\* three elements, then at most MaxElems elements of the pool in any order.
DataSets ==
  { lead \o rest :
      lead \in {<<>>, <<1>>, <<2>>, <<3>>},
      rest \in UNION {[1..n -> 1..Len(Pool)] : n \in 0..MaxElems} }

DataSetBytes(ds, impl, le) == EncAll([i \in 1..Len(ds) |-> Pool[ds[i]]], impl, le)

\* A UI value is padded to an even length with one NUL.
PadUI(uid) == IF Len(uid) % 2 = 1 THEN uid \o <<0>> ELSE uid

TransferSyntaxUID(uid) == Val(\H0002, \H0010, UI, 1, PadUI(uid), 0, FALSE)
ImplementationClassUID == Val(\H0002, \H0012, UI, 1, S(<<"1", ".", "2", ".", "3", " ">>), 0, FALSE)

\* The file meta information: the group length counts the elements inside.
MetaBytes(inside, outside) ==
  LET counted == EncAll(inside, FALSE, TRUE)
  IN  Enc(Val(\H0002, \H0000, UL, 4, <<Len(counted)>>, 0, FALSE), FALSE, TRUE)
      \o counted \o EncAll(outside, FALSE, TRUE)

Preamble == [i \in 1..128 |-> 0]

File(magic, meta, dataSet) == Preamble \o magic \o meta \o dataSet

DICM == S(<<"D", "I", "C", "M">>)

\* The transfer syntaxes under which every data set is tried.
Encodings ==
  { [uid |-> ImplicitVRLittleEndian, implicit |-> TRUE, littleEndian |-> TRUE],
    [uid |-> ExplicitVRLittleEndian, implicit |-> FALSE, littleEndian |-> TRUE],
    [uid |-> ExplicitVRBigEndian, implicit |-> FALSE, littleEndian |-> FALSE] }

\* The other values of (0002,0010) tried, before one element in explicit VR
\* little endian.
OtherUids ==
  { DeflatedExplicitVRLittleEndian, JpegBaseline50, JpegBaseline51, JpegLossless57,
    JpegLossless70, Mpeg2, Rle,
    Uid(<<".","4",".","5","2">>), Uid(<<".","4",".","6","5">>),
    Uid(<<".","4",".","8","0">>), Uid(<<".","4",".","9","0">>),
    Uid(<<".","4",".","9","1">>),
    \* not UIDs of the standard
    S(<<"1">>) \o Uid(<<".","4",".","9","0">>),
    Uid(<<".","4","1","9">>),
    S(<<"1", ".", "2", ".", "3">>),
    ExplicitVRLittleEndian \o S(<<" ">>),
    <<>> }

WellFormedFiles ==
  { File(DICM, MetaBytes(<<TransferSyntaxUID(c.uid)>>, <<>>),
         DataSetBytes(ds, c.implicit, c.littleEndian)) :
      c \in Encodings, ds \in DataSets }

OtherSyntaxFiles ==
  { File(DICM, MetaBytes(<<TransferSyntaxUID(uid)>>, <<>>),
         Enc(PatientName, FALSE, TRUE)) : uid \in OtherUids }

\* Files whose meta group is not what its length says, or lacks (0002,0010).
OddMetaFiles ==
  { File(DICM, MetaBytes(<<TransferSyntaxUID(c.uid)>>, <<ImplementationClassUID>>),
         DataSetBytes(<<1>>, c.implicit, c.littleEndian)) : c \in Encodings }
  \cup { File(DICM, MetaBytes(<<TransferSyntaxUID(c.uid), ImplementationClassUID>>, <<>>),
              DataSetBytes(<<1>>, c.implicit, c.littleEndian)) : c \in Encodings }
  \cup { File(DICM, MetaBytes(<<ImplementationClassUID>>, <<>>), <<>>),
         File(DICM, MetaBytes(<<>>, <<>>), <<>>),
         File(DICM, <<>>, <<>>) }

\* Files without the magic word, and buffers too short to hold it.
NoMagicFiles ==
  { File(magic, MetaBytes(<<TransferSyntaxUID(ExplicitVRLittleEndian)>>, <<>>),
         Enc(PatientName, FALSE, TRUE)) :
      magic \in {S(<<"X","X","X","X">>), S(<<"D","I","C","O">>), S(<<"d","i","c","m">>)} }
  \cup { File(S(<<"X","X","X","X">>), <<>>, <<>>), Preamble, Preamble \o S(<<"D","I">>), <<>> }

Buffers == WellFormedFiles \cup OtherSyntaxFiles \cup OddMetaFiles \cup NoMagicFiles

----------------------------------------------------------------------------
(* The specification: one call of parse on a parser just constructed *)

\* The value of returned before any method of the elements wrapper was called.
NoCall == [op |-> "none", args |-> <<>>, err |-> "", value |-> <<>>]

\* The value of logical for a buffer that is not written from a data set.
NoDataSet == <<>>

\* new DicomParser() (lines 531-557), the locals of parse (lines 903-907) on
\* the buffer, and no call of the wrapper yet; ds is the data set the buffer
\* was written from.
ConstructedOn(buf, ds) ==
  /\ buffer = buf
  /\ logical = ds
  /\ pc = "start"
  /\ offset = 0
  /\ implicit = FALSE
  /\ dataLittleEndian = TRUE
  /\ metaEnd = [nan |-> TRUE, n |-> 0]
  /\ dataElement = NoElement
  /\ lastCall = Call("none", 0, FALSE, TRUE)
  /\ dicomElements = EmptyObject
  /\ pixelBuffer = Array(<<>>)
  /\ error = ""
  /\ input = buffer
  /\ parses = 1
  /\ returned = NoCall

Constructed(buffers) == \E buf \in buffers : ConstructedOn(buf, NoDataSet)

Init == Constructed(Buffers)

Next ==
  \/ ParseMagic
  \/ ParseMetaLength
  \/ ParseMetaElement
  \/ ParseSyntax
  \/ ParseDataElement
  \/ ParsePixelBuffer

Spec == Init /\ [][Next]_vars

----------------------------------------------------------------------------
(* What a state shows of the parse *)

\* parse has read the magic word: the buffer holds offsets 128..131.
MagicRead == pc # "start" /\ InRange(buffer, 128, 4)

\* The four bytes at offsets 128..131.
MagicBytes == SubSeq(buffer, 129, 132)

\* The transfer syntax was classified (lines 940-986 ran to their end or threw).
SyntaxClassified ==
  \/ pc \in {"data", "done"}
  \/ pc = "error" /\ (error \in UnsupportedErrors \/ lastCall.reader = "data")

\* parse went on to decode the data set.
DataSetDecoded == pc \in {"data", "done"} \/ (pc = "error" /\ lastCall.reader = "data")

\* The cleaned value of (0002,0010).
CleanedSyntax == cleanString(Get(dicomElements, x00020010).value.data[1])

\* dataElement is what the call recorded in lastCall returned.
LastDecoded == pc \in {"meta", "data", "done"}

\* The UIDs 1.2.840.10008.1.2.4.90 to .4.99.
Jpeg2000Uids == { Regex49 \o <<d>> : d \in 48..57 }

\* The transfer syntaxes under which parse is to decode the data set.
DecodableSyntaxes ==
  { ImplicitVRLittleEndian, ExplicitVRLittleEndian, ExplicitVRBigEndian,
    JpegBaseline50, JpegBaseline51, JpegLossless57, JpegLossless70 } \cup Jpeg2000Uids

----------------------------------------------------------------------------
(* C1 *)

\* C1: when the four bytes at offsets 128..131 are not "DICM", parse has failed
\* with the error NotDicom and has decoded and stored nothing: the element map
\* and the pixel buffer are as the constructor left them; when they are
\* "DICM", the error NotDicom is never raised.
C1_MagicWord ==
  MagicRead =>
    IF MagicBytes # DICM
    THEN /\ pc = "error"
         /\ error = NotDicom
         /\ dicomElements = EmptyObject
         /\ pixelBuffer = Array(<<>>)
         /\ dataElement = NoElement
         /\ lastCall.reader = "none"
    ELSE error # NotDicom

\* A buffer with "dicm" at offset 128 was refused.
C1_Witness ==
  /\ MagicRead
  /\ MagicBytes = S(<<"d", "i", "c", "m">>)
  /\ error = NotDicom

----------------------------------------------------------------------------
(* C2 *)

\* C2: once the transfer syntax is classified, the data set is decoded exactly
\* when the cleaned UID is 1.2.840.10008.1.2, .1.2.1, .1.2.2, .1.2.4.50, .4.51,
\* .4.57, .4.70 or .4.90 to .4.99, and parse has failed with an
\* unsupported-transfer-syntax error for every other string; the data set is
\* decoded with implicit VR exactly for 1.2.840.10008.1.2 and big endian
\* exactly for 1.2.840.10008.1.2.2.
C2_Classification ==
  SyntaxClassified =>
    /\ DataSetDecoded <=> CleanedSyntax \in DecodableSyntaxes
    /\ ~DataSetDecoded => error \in UnsupportedErrors
    /\ DataSetDecoded =>
         /\ implicit <=> CleanedSyntax = ImplicitVRLittleEndian
         /\ ~dataLittleEndian <=> CleanedSyntax = ExplicitVRBigEndian

----------------------------------------------------------------------------
(* C3 *)

\* C3: every element of group 0x0002 is decoded with explicit VR and little
\* endian: the calls of readDataElement for the meta group are explicit and
\* little endian, and no element that the data-set reader decoded is of group
\* 0x0002.
C3_MetaGroupExplicitLittleEndian ==
  /\ lastCall.reader = "meta" => ~lastCall.implicit /\ lastCall.littleEndian
  /\ (LastDecoded /\ lastCall.reader = "data") =>
       dataElement.tag.group # Hex4("0","0","0","2")

----------------------------------------------------------------------------
(* The elements a call of readDataElement decoded *)

\* The offset an element was read at: readTag leaves tag.endOffset 4 bytes on.
startOffset(el) == el.tag.endOffset - 4

IsItemOrDelimiter(el) == el.tag.name \in {xFFFEE000, xFFFEE00D, xFFFEE0DD}

\* The value is the list of items of an undefined-length pixel data element.
IsPixelItems(el) == el.tag.name = x7FE00010 /\ el.vl = UndefinedLength

\* The value is a list of item maps.
IsSequence(el) == el.vr = SQ /\ ~IsPixelItems(el)

\* An element and every element decoded inside its value, in the order read.
RECURSIVE Decoded(_)
Decoded(el) ==
  <<el>> \o
  (IF IsPixelItems(el)
   THEN Flatten([i \in 1..el.value.length |-> Decoded(el.value.data[i])])
   ELSE IF el.vr = SQ
   THEN Flatten([i \in 1..el.value.length |->
                   Flatten([j \in 1..Len(el.value.data[i]) |->
                              Decoded(el.value.data[i][j][2])])])
   ELSE <<>>)

\* The header size the wire format gives an element.
prefixSize(el, impl) ==
  IF IsItemOrDelimiter(el) \/ impl THEN 8
  ELSE IF el.vr \in {OB, OW, OF, SQ, UN, ox} THEN 12
  ELSE 8

effectiveVL(el) == IF el.vl = UndefinedLength THEN 0 ELSE el.vl

valueStart(el, impl) == startOffset(el) + prefixSize(el, impl)

\* The name of the tag at offset o.
TagNameAt(buf, le, o) == IF InRange(buf, o, 4) THEN readTag(buf, le, o).tag.name ELSE <<>>

\* An item map holds the item element first, then the item's children.
ItemElement(m) == m[1][2]

LastOf(m) == m[Len(m)][2]

\* Where the reading of the item of map m ended.
ItemEnd(m) ==
  IF ItemElement(m).vl = UndefinedLength THEN LastOf(m).endOffset + 8
  ELSE LastOf(m).endOffset

----------------------------------------------------------------------------
(* C4 *)

\* C4 as stated: every element decoded ends at its start offset plus its
\* header size plus its effective length, the effective length of an
\* undefined-length element being 0.
C4_EndOffsetAsStated ==
  LastDecoded =>
    LET els == Decoded(dataElement)
    IN  \A i \in 1..Len(els) :
          els[i].endOffset = valueStart(els[i], lastCall.implicit) + effectiveVL(els[i])

\* C4, amended: an element that is neither a sequence nor undefined-length
\* pixel data ends at its start offset plus its header size (8, or 12 for an
\* explicit VR of the 32-bit set) plus its effective length; a sequence of
\* length 0 ends after its header; a sequence of another explicit length ends
\* where its last item ended, at or after start + header + VL; an
\* undefined-length sequence ends after the sequence delimiter, at least 8
\* bytes after its header, and undefined-length pixel data at least 16.
C4_EndOffset ==
  LastDecoded =>
    LET els == Decoded(dataElement)
    IN  \A i \in 1..Len(els) :
          LET e == els[i]
              valueEnd == valueStart(e, lastCall.implicit) + effectiveVL(e)
          IN  IF IsPixelItems(e) THEN e.endOffset >= valueEnd + 16
              ELSE IF e.vr = SQ /\ e.vl = UndefinedLength THEN e.endOffset >= valueEnd + 8
              ELSE IF e.vr = SQ /\ e.vl # 0 THEN e.endOffset >= valueEnd
              ELSE e.endOffset = valueEnd

\* An undefined-length sequence of two items was decoded in explicit VR big
\* endian, and it ends after its header.
C4_Witness ==
  /\ LastDecoded
  /\ lastCall.reader = "data"
  /\ ~lastCall.implicit
  /\ ~lastCall.littleEndian
  /\ dataElement.vr = SQ
  /\ dataElement.vl = UndefinedLength
  /\ dataElement.value.length = 2
  /\ dataElement.endOffset > valueStart(dataElement, FALSE)

----------------------------------------------------------------------------
(* C5 *)

\* What the rule of C5 gives for the element at offset s: its VR, its VL and
\* the offset of its value.
Rule(buf, le, impl, s) ==
  LET tag == readTag(buf, le, s).tag
      wireVR == SubSeq(buf, s + 5, s + 6)
      delimiter == tag.group = FFFE /\ tag.element \in {E000, E00D, E0DD}
      wide == delimiter \/ impl \/ wireVR \in {OB, OW, OF, SQ, UN, ox}
      vlOffset == IF delimiter \/ impl THEN s + 4 ELSE IF wide THEN s + 8 ELSE s + 6
      field == IF wide THEN getUint32(buf, vlOffset, le) ELSE getUint16(buf, vlOffset, le)
  IN  [vr |-> IF delimiter THEN UN
              ELSE IF impl
              THEN IF dictHas(tag.group, tag.element)
                   THEN dictEntry(tag.group, tag.element)[1] ELSE UN
              ELSE wireVR,
       vl |-> IF field = U32Max THEN UndefinedLength ELSE field,
       valueOffset |-> vlOffset + (IF wide THEN 4 ELSE 2)]

\* C5: every element decoded has the VR and the VL of the rule: UN and a
\* 32-bit VL after the tag for FFFE,E000 / E00D / E0DD; else in implicit mode
\* the dictionary's VR (UN without an entry) and a 32-bit VL after the tag;
\* else the two characters after the tag, and a 32-bit VL after two reserved
\* bytes exactly for OB, OW, OF, SQ, UN, ox, a 16-bit VL otherwise; and a value
\* that views the buffer starts right after the VL.
C5_VRAndVLWidth ==
  LastDecoded =>
    LET els == Decoded(dataElement)
    IN  \A i \in 1..Len(els) :
          LET e == els[i]
              rule == Rule(buffer, lastCall.littleEndian, lastCall.implicit, startOffset(e))
          IN  /\ e.vr = rule.vr
              /\ e.vl = rule.vl
              /\ e.value.view => e.value.byteOffset = rule.valueOffset

\* An element of explicit VR UN was decoded with its 32-bit VL.
C5_Witness ==
  /\ LastDecoded
  /\ lastCall.reader = "data"
  /\ ~lastCall.implicit
  /\ ~IsItemOrDelimiter(dataElement)
  /\ dataElement.vr = UN
  /\ dataElement.vl = 2
  /\ dataElement.value.byteOffset = lastCall.offset + 12

----------------------------------------------------------------------------
(* C6 *)

\* The items of an undefined-length sequence e lie end to end from the start
\* of its value to the sequence delimiter, the 8 bytes before e.endOffset.
ItemsUpToDelimiter(e, le, impl) ==
  LET items == e.value.data
      n == Len(items)
  IN  /\ TagNameAt(buffer, le, e.endOffset - 8) = xFFFEE0DD
      /\ \A i \in 1..n : items[i] # EmptyObject /\ ~HasKey(items[i], xFFFEE0DD)
      /\ IF n = 0 THEN e.endOffset - 8 = valueStart(e, impl)
         ELSE /\ startOffset(ItemElement(items[1])) = valueStart(e, impl)
              /\ \A i \in 1..(n - 1) :
                   startOffset(ItemElement(items[i + 1])) = ItemEnd(items[i])
              /\ ItemEnd(items[n]) = e.endOffset - 8

\* The children of an undefined-length item of map m lie end to end from the
\* item's header to an item delimiter, which is not among them.
ChildrenUpToDelimiter(m, le) ==
  /\ ~HasKey(m, xFFFEE00D)
  /\ \A j \in 2..Len(m) : startOffset(m[j][2]) = m[j - 1][2].endOffset
  /\ TagNameAt(buffer, le, LastOf(m).endOffset) = xFFFEE00D

\* C6: for every undefined-length SQ decoded, its endOffset lies just past one
\* FFFE,E0DD delimiter, up to which its items lie end to end, and no entry of
\* its item list is or contains that delimiter; for every undefined-length
\* item, the children stored stop before the first FFFE,E00D, the item ends
\* just past it (the next item, or the sequence delimiter, starts there), and
\* its map has no key xFFFEE00D.
C6_TerminatorsConsumed ==
  LastDecoded =>
    LET els == Decoded(dataElement)
    IN  \A i \in 1..Len(els) :
          IsSequence(els[i]) =>
            /\ els[i].vl = UndefinedLength =>
                 ItemsUpToDelimiter(els[i], lastCall.littleEndian, lastCall.implicit)
            /\ \A k \in 1..els[i].value.length :
                 LET m == els[i].value.data[k]
                 IN  (m # EmptyObject /\ ItemElement(m).vl = UndefinedLength) =>
                       ChildrenUpToDelimiter(m, lastCall.littleEndian)

\* An undefined-length sequence of two undefined-length items, each with one
\* child, was decoded.
C6_Witness ==
  /\ LastDecoded
  /\ IsSequence(dataElement)
  /\ dataElement.vl = UndefinedLength
  /\ dataElement.value.length = 2
  /\ \A k \in 1..2 :
       /\ ItemElement(dataElement.value.data[k]).vl = UndefinedLength
       /\ Len(dataElement.value.data[k]) = 2

----------------------------------------------------------------------------
(* C7 *)

\* C7: for every explicit-length SQ decoded, with value range
\* [start, start + VL), every element decoded inside starts at or after start
\* and ends at or before start + VL, and the SQ ends at start + VL; for every
\* explicit-length item, every child ends at or before the end of the item's
\* range.
C7_ExplicitLengthBounds ==
  LastDecoded =>
    LET els == Decoded(dataElement)
    IN  \A i \in 1..Len(els) :
          IsSequence(els[i]) =>
            /\ els[i].vl # UndefinedLength =>
                 LET start == valueStart(els[i], lastCall.implicit)
                     inside == Decoded(els[i])
                 IN  /\ els[i].endOffset = start + els[i].vl
                     /\ \A j \in 2..Len(inside) :
                          /\ startOffset(inside[j]) >= start
                          /\ inside[j].endOffset <= start + els[i].vl
            /\ \A k \in 1..els[i].value.length :
                 LET m == els[i].value.data[k]
                 IN  (m # EmptyObject /\ ItemElement(m).vl # UndefinedLength) =>
                       \A j \in 2..Len(m) :
                         /\ startOffset(m[j][2]) >= ItemElement(m).endOffset - ItemElement(m).vl
                         /\ m[j][2].endOffset <= ItemElement(m).endOffset

----------------------------------------------------------------------------
(* C8 *)

\* The start offsets of the items on the wire from offset o up to the first
\* FFFE,E0DD: each is a tag and a 32-bit length, then that many bytes.
RECURSIVE WireItems(_, _, _)
WireItems(buf, le, o) ==
  IF ~InRange(buf, o, 8) \/ TagNameAt(buf, le, o) = xFFFEE0DD THEN <<>>
  ELSE <<o>> \o WireItems(buf, le, o + 8 + (IF getUint32(buf, o + 4, le) = U32Max THEN 0
                                            ELSE getUint32(buf, o + 4, le)))

----------------------------------------------------------------------------
(* C9 *)

\* The elements of the values of the entries of a list, one after the other.
ValuesInOrder(buf, items) ==
  Flatten([i \in 1..Len(items) |-> Elements(buf, items[i].value)])

RECURSIVE SumOfLengths(_)
SumOfLengths(items) ==
  IF items = <<>> THEN 0 ELSE Head(items).value.length + SumOfLengths(Tail(items))

\* C9: after a successful parse the pixel buffer is empty when the element map
\* has no 7FE0,0010; it is the value of 7FE0,0010 when that element's VL is a
\* number; and when the VL is undefined it holds the elements of the values of
\* the entries of the value list, in list order, its length being the sum of
\* their lengths.
C9_PixelBuffer ==
  pc = "done" =>
    /\ error = ""
    /\ IF ~HasKey(dicomElements, x7FE00010) THEN pixelBuffer = Array(<<>>)
       ELSE LET pixelData == Get(dicomElements, x7FE00010)
            IN  IF pixelData.vl # UndefinedLength THEN pixelBuffer = pixelData.value
                ELSE /\ Elements(buffer, pixelBuffer)
                          = ValuesInOrder(buffer, pixelData.value.data)
                     /\ pixelBuffer.length = SumOfLengths(pixelData.value.data)

\* A parse ended with the pixel buffer made of two fragments of two bytes.
C9_Witness ==
  /\ pc = "done"
  /\ HasKey(dicomElements, x7FE00010)
  /\ Get(dicomElements, x7FE00010).vl = UndefinedLength
  /\ Get(dicomElements, x7FE00010).value.length = 2
  /\ pixelBuffer.length = 4
  /\ Elements(buffer, pixelBuffer) = Fragment(1) \o Fragment(2)

----------------------------------------------------------------------------
(* C10 *)

\* The value representations of the standard.
KnownVRs ==
  { S(vr) : vr \in { <<"A","E">>, <<"A","S">>, <<"A","T">>, <<"C","S">>, <<"D","A">>,
                     <<"D","S">>, <<"D","T">>, <<"F","L">>, <<"F","D">>, <<"I","S">>,
                     <<"L","O">>, <<"L","T">>, <<"O","B">>, <<"O","D">>, <<"O","F">>,
                     <<"O","W">>, <<"P","N">>, <<"S","H">>, <<"S","L">>, <<"S","Q">>,
                     <<"S","S">>, <<"S","T">>, <<"T","M">>, <<"U","I">>, <<"U","L">>,
                     <<"U","N">>, <<"U","S">>, <<"U","T">> } }

\* The call recorded in lastCall read, in explicit mode, an element whose VR
\* on the wire is not a known one and whose 32-bit layout fits in the buffer.
UnknownVRRead ==
  /\ lastCall.reader # "none"
  /\ ~lastCall.implicit
  /\ InRange(buffer, lastCall.offset, 12)
  /\ TagNameAt(buffer, lastCall.littleEndian, lastCall.offset)
       \notin {xFFFEE000, xFFFEE00D, xFFFEE0DD}
  /\ SubSeq(buffer, lastCall.offset + 5, lastCall.offset + 6) \notin KnownVRs \cup {ox}
  /\ getUint32(buffer, lastCall.offset + 8, lastCall.littleEndian) # U32Max
  /\ InRange(buffer, lastCall.offset + 12,
             getUint32(buffer, lastCall.offset + 8, lastCall.littleEndian))

\* C10: in explicit mode an element whose VR on the wire is not a known one is
\* decoded as UN: with the 32-bit VL layout, its value the VL bytes after the
\* 12-byte header, stored with vr UN, and without an error.
C10_UnknownVRAsUN ==
  UnknownVRRead =>
    LET vl == getUint32(buffer, lastCall.offset + 8, lastCall.littleEndian)
    IN  /\ pc # "error"
        /\ dataElement.vr = UN
        /\ dataElement.vl = vl
        /\ dataElement.value = View("Uint8Array", lastCall.offset + 12, vl)
        /\ dataElement.endOffset = lastCall.offset + 12 + vl
        /\ HasKey(dicomElements, dataElement.tag.name)

----------------------------------------------------------------------------
(* A second call of parse on the same parser *)

MaxParses == 2

\* A typed array that views the buffer of an earlier call keeps the elements
\* it has: that buffer is not the one of the next call and is not written
\* again.  Detached gives the array as the copy of its elements.
RECURSIVE DetachedElement(_, _)
RECURSIVE DetachedMap(_, _)

DetachedArray(buf, v) == IF v.view THEN Copy(v.type, Elements(buf, v)) ELSE v

DetachedElement(buf, el) ==
  [el EXCEPT !.value =
     IF IsPixelItems(el)
     THEN Array([i \in 1..el.value.length |-> DetachedElement(buf, el.value.data[i])])
     ELSE IF el.vr = SQ
     THEN Array([i \in 1..el.value.length |-> DetachedMap(buf, el.value.data[i])])
     ELSE DetachedArray(buf, el.value)]

DetachedMap(buf, obj) ==
  [i \in 1..Len(obj) |-> <<obj[i][1], DetachedElement(buf, obj[i][2])>>]

\* The data sets of the buffers a parser is given one after the other.
RepeatDataSets ==
  { <<PatientName>>, <<BitsAllocated(8)>>, <<NativePixelData>>,
    <<BitsAllocated(16), NativePixelData>>, <<EncapsulatedPixelData(1)>>, <<Truncated>> }

RepeatBuffers ==
  { File(DICM, MetaBytes(<<TransferSyntaxUID(c.uid)>>, <<>>),
         EncAll(ds, c.implicit, c.littleEndian)) :
      c \in Encodings, ds \in RepeatDataSets }

\* parser.parse(buffer') on the parser of the call that ended: the
\* constructor is not run again (lines 531-557), the locals of parse are
\* new (lines 903-907).
ParseAgain ==
  /\ pc \in {"done", "error"}
  /\ parses < MaxParses
  /\ buffer' \in RepeatBuffers
  /\ input' = buffer'
  /\ parses' = parses + 1
  /\ pc' = "start"
  /\ offset' = 0
  /\ implicit' = FALSE
  /\ dataLittleEndian' = TRUE
  /\ metaEnd' = [nan |-> TRUE, n |-> 0]
  /\ dataElement' = NoElement
  /\ lastCall' = Call("none", 0, FALSE, TRUE)
  /\ error' = ""
  /\ dicomElements' = DetachedMap(buffer, dicomElements)
  /\ pixelBuffer' = DetachedArray(buffer, pixelBuffer)
  /\ UNCHANGED <<returned, logical>>

InitTwice == Constructed(RepeatBuffers)

NextTwice ==
  \/ ParseMagic
  \/ ParseMetaLength
  \/ ParseMetaElement
  \/ ParseSyntax
  \/ ParseDataElement
  \/ ParsePixelBuffer
  \/ ParseAgain

SpecTwice == InitTwice /\ [][NextTwice]_vars

----------------------------------------------------------------------------
(* DicomElementsWrapper: lookups *)

\* dwv.dicom.splitGroupElementKey
splitGroupElementKey(key) ==
  [group |-> substr(key, 1, 4), element |-> substr(key, 5, 8)]

\* What a lookup returns: null, the one entry of a value of length 1 (kept
\* as a sequence of one), or the value, an array.
Null == [isNull |-> TRUE, single |-> FALSE, value |-> <<>>]

\* value[k] (k from 0) of an element's value, as the buffer stands.
ValueAt(buf, v, k) == IF v.view THEN ViewElement(buf, v.type, v.byteOffset, k) ELSE v.data[k + 1]

\* DicomElementsWrapper.getFromKey; asArray undefined is asArray false.
getFromKey(wrapped, buf, groupElementKey, asArray) ==
  IF ~HasKey(wrapped, groupElementKey) THEN Null
  ELSE IF Get(wrapped, groupElementKey).value.length = 1 /\ asArray = FALSE
  THEN [isNull |-> FALSE, single |-> TRUE,
        value |-> <<ValueAt(buf, Get(wrapped, groupElementKey).value, 0)>>]
  ELSE [isNull |-> FALSE, single |-> FALSE, value |-> Get(wrapped, groupElementKey).value]

\* DicomElementsWrapper.getFromGroupElement
getFromGroupElement(wrapped, buf, group, element) ==
  getFromKey(wrapped, buf, getGroupElementKey(group, element), FALSE)

\* DicomElementsWrapper.getFromName: the search of the dictionary for the
\* keyword, then the lookup of the tag found.
getFromName(wrapped, buf, name) ==
  IF \E d \in dictionary : d[3][3] = name
  THEN getFromKey(wrapped, buf,
                  getGroupElementKey((CHOOSE d \in dictionary : d[3][3] = name)[1],
                                     (CHOOSE d \in dictionary : d[3][3] = name)[2]),
                  FALSE)
  ELSE Null

\* The name of a tag for a reader: the dictionary's keyword.
tagName(tag) ==
  IF dictHas(tag.group, tag.element) THEN dictEntry(tag.group, tag.element)[3]
  ELSE "Unknown Tag & Data"

dumpToTable_Reversed(wrapped) ==
  [i \in 1..Len(wrapped) |->
     LET dicomElement == wrapped[Len(wrapped) + 1 - i][2]
     IN  [name |-> tagName(dicomElement.tag),
          value |-> IF dicomElement.tag.name # x7FE00010 THEN dicomElement.value
                    ELSE Array(<<"...">>),
          group |-> dicomElement.tag.group,
          element |-> dicomElement.tag.element,
          vr |-> dicomElement.vr,
          vl |-> dicomElement.vl]]

\* DicomElementsWrapper.dumpToTable: one row for each key of Object.keys.
\* The value "..." of the pixel data row is kept in an array.
dumpToTable(wrapped) ==
  [i \in 1..Len(wrapped) |->
     LET dicomElement == wrapped[i][2]
     IN  [name |-> tagName(dicomElement.tag),
          value |-> IF dicomElement.tag.name # x7FE00010 THEN dicomElement.value
                    ELSE Array(<<"...">>),
          group |-> dicomElement.tag.group,
          element |-> dicomElement.tag.element,
          vr |-> dicomElement.vr,
          vl |-> dicomElement.vl]]

----------------------------------------------------------------------------
(* DicomElementsWrapper: the dump *)

\* A text is the sequence of the pieces appended to it (line += piece), a
\* piece being a literal of the source or a string of character codes; its
\* length is the sum of the lengths of its pieces.
RECURSIVE TextLen(_)
TextLen(text) == IF text = <<>> THEN 0 ELSE Len(Head(text)) + TextLen(Tail(text))

toLowerCase(s) == [i \in 1..Len(s) |-> IF s[i] \in 65..90 THEN s[i] + 32 ELSE s[i]]

\* Number.prototype.toString(), for an integer.
RECURSIVE toString10(_)
toString10(n) ==
  IF n < 0 THEN <<45>> \o toString10(0 - n)
  ELSE IF n < 10 THEN <<48 + n>>
  ELSE toString10(n \div 10) \o <<48 + (n % 10)>>

spaces(n) == [i \in 1..n |-> 32]

\* The markers of the dump: "na" and 'pi'.
na == S(<<"n", "a">>)
pi == S(<<"p", "i">>)

\* dicomElement.vr[0].toUpperCase() === "O"
isOtherVR(dicomElement) == toUpperCase(<<dicomElement.vr[1]>>) = S(<<"O">>)

isPixSequence(dicomElement) ==
  /\ dicomElement.tag.group = Hex4("7","F","E","0")
  /\ dicomElement.tag.element = Hex4("0","0","1","0")
  /\ dicomElement.vl = UndefinedLength

\* lines 1153-1164
deSizeOf(dicomElement) ==
  IF dicomElement.tag.group = FFFE /\ dicomElement.tag.element \in {E00D, E0DD} THEN 0
  ELSE IF isOtherVR(dicomElement) THEN 1
  ELSE dicomElement.value.length

\* line 1181: vr !== "SQ" && value.length === 1 && value[0] === "".  Only an
\* array of strings holds a string.
hasNoValue(dicomElement) ==
  /\ dicomElement.vr # SQ
  /\ dicomElement.value.length = 1
  /\ dicomElement.value.type = "Array"
  /\ ~isPixSequence(dicomElement)
  /\ dicomElement.value.data[1] = <<>>

\* The string of value[k] (k from 0): a number in base 10, a string as it is.
\* Floats are not among the values dumped (CASE has no arm for them).
entryString(buf, v, k) ==
  CASE v.type \in IntegerArrays -> toString10(ValueAt(buf, v, k))
    [] v.type = "Array" -> ValueAt(buf, v, k)

\* value[k].toString(16): a number in base 16, a string as it is.
entryString16(buf, v, k) ==
  CASE v.type \in IntegerArrays -> toString16(ValueAt(buf, v, k))
    [] v.type = "Array" -> ValueAt(buf, v, k)

\* lines 1216-1224: tmp is value[k].toString(16), padded to 2 characters for
\* OB, to 4 otherwise.
entryHex(dicomElement, tmp) ==
  IF dicomElement.vr = OB
  THEN substr(S(<<"0","0">>), 0, 2 - Len(tmp)) \o tmp
  ELSE substr(S(<<"0","0","0","0">>), 0, 4 - Len(tmp)) \o tmp

\* lines 1208-1236: the values, separated by "\", cut after 65 characters.
RECURSIVE valuesStr(_, _, _, _)
valuesStr(buf, dicomElement, k, acc) ==
  IF k >= dicomElement.value.length THEN acc
  ELSE LET valueStr == (IF k # 0 THEN <<CharCode("\\")>> ELSE <<>>) \o
                       (IF isOtherVR(dicomElement)
                        THEN entryHex(dicomElement, entryString16(buf, dicomElement.value, k))
                        ELSE entryString(buf, dicomElement.value, k))
       IN  IF Len(acc) + Len(valueStr) <= 65
           THEN valuesStr(buf, dicomElement, k + 1, acc \o valueStr)
           ELSE acc \o S(<<".", ".", ".">>)

\* lines 1253-1265: the values between brackets, the strings cleaned.
RECURSIVE bracketed(_, _, _)
bracketed(buf, dicomElement, j) ==
  IF j >= dicomElement.value.length THEN <<>>
  ELSE (IF j # 0 THEN <<"\\">> ELSE <<>>)
       \o <<IF dicomElement.value.type = "Array"
            THEN cleanString(ValueAt(buf, dicomElement.value, j))
            ELSE entryString(buf, dicomElement.value, j)>>
       \o bracketed(buf, dicomElement, j + 1)

NumberListVRs == {pi, UL, US, SL, SS, FL, FD, AT}

\* lines 1181-1267: the text of the value.  The value of an element of VR
\* "na" is a message of the dump, a text.
valueText(buf, dicomElement) ==
  IF hasNoValue(dicomElement) THEN <<" (no value available)">>
  ELSE IF dicomElement.vr = na THEN <<" ">> \o dicomElement.value.data[1]
  ELSE IF isPixSequence(dicomElement)
  THEN <<" (PixelSequence #=", toString10(deSizeOf(dicomElement)), ")">>
  ELSE IF isOtherVR(dicomElement) \/ dicomElement.vr \in NumberListVRs
  THEN <<" ", valuesStr(buf, dicomElement, 0, <<>>)>>
  ELSE IF dicomElement.vr = SQ
  THEN <<" (Sequence with",
         IF dicomElement.vl = UndefinedLength THEN " undefined" ELSE " explicit",
         " length #=", toString10(dicomElement.value.length), ")">>
  ELSE <<" [">> \o bracketed(buf, dicomElement, 0) \o <<"]">>

\* lines 1172-1179, 1181-1267: the line up to its value.
lineStart(buf, dicomElement) ==
  <<"(", toLowerCase(substr(dicomElement.tag.group, 2, 5)), ",",
    toLowerCase(substr(dicomElement.tag.element, 2, 5)), ") ", dicomElement.vr>>
  \o valueText(buf, dicomElement)

\* lines 1269-1292: the alignment, the length, the size and the name.
lineEnd(dicomElement, length) ==
  (IF 55 - length > 0 THEN <<spaces(55 - length)>> ELSE <<>>)
  \o <<" # ">>
  \o (IF dicomElement.vl # UndefinedLength /\ dicomElement.vl < 100 THEN <<" ">> ELSE <<>>)
  \o (IF dicomElement.vl # UndefinedLength /\ dicomElement.vl < 10 THEN <<" ">> ELSE <<>>)
  \o <<IF dicomElement.vl = UndefinedLength THEN "u/l" ELSE toString10(dicomElement.vl)>>
  \o <<", ", toString10(IF hasNoValue(dicomElement) THEN 0 ELSE deSizeOf(dicomElement)),
       " ", tagName(dicomElement.tag)>>

\* One line of the dump: the prefix, the tag and the VR it is about, its text.
lineOf(buf, dicomElement, prefix) ==
  [prefix |-> prefix,
   group |-> dicomElement.tag.group,
   element |-> dicomElement.tag.element,
   vr |-> dicomElement.vr,
   text |-> lineStart(buf, dicomElement)
            \o lineEnd(dicomElement, TextLen(lineStart(buf, dicomElement)))]

\* The elements the dump makes up for the delimiters (lines 1334-1339,
\* 1350-1355, 1369-1374); their vl is the string "0".
delimElement(element, message) ==
  [tag |-> [group |-> FFFE, element |-> element, name |-> <<>>, endOffset |-> 0],
   vr |-> na, vl |-> 0, value |-> Array(<<message>>), endOffset |-> 0]

\* What getElementAsString gives: the exception raised (or ""), the lines of
\* the string returned, and the element as the call leaves it.
AsString(e, lines, dicomElement) == [err |-> e, lines |-> lines, el |-> dicomElement]

RECURSIVE getElementAsString(_, _, _)
RECURSIVE itemChildrenAsString(_, _, _, _, _)
RECURSIVE itemsAsString(_, _, _, _, _)
RECURSIVE pixItemsAsString(_, _, _, _, _)

\* lines 1308-1315, 1329-1333, 1345-1349: the messages.
itemMessage(item) ==
  <<"(Item with",
    IF Get(item, xFFFEE000).vl = UndefinedLength THEN " undefined" ELSE " explicit",
    " length #=", toString10(Len(item) - 1), ")">>

itemDelimMessage(item) ==
  <<"(ItemDelimitationItem">>
  \o (IF Get(item, xFFFEE000).vl # UndefinedLength THEN <<" for re-encoding">> ELSE <<>>)
  \o <<")">>

sqDelimMessage(dicomElement) ==
  <<"(SequenceDelimitationItem">>
  \o (IF dicomElement.vl # UndefinedLength THEN <<" for re-encod.">> ELSE <<>>)
  \o <<")">>

\* lines 1316-1317: the item element is given the message as its value and
\* the VR "na".
itemElementMarked(item) ==
  [Get(item, xFFFEE000) EXCEPT !.value = Array(<<itemMessage(item)>>), !.vr = na]

\* lines 1322-1327, one turn: r is what getElementAsString gave for child m.
itemChildDone(buf, item, m, prefix, lines, r) ==
  IF r.err # "" THEN [err |-> r.err, lines |-> lines, item |-> Put(item, item[m][1], r.el)]
  ELSE itemChildrenAsString(buf, Put(item, item[m][1], r.el), m + 1, prefix,
                            lines \o r.lines)

\* lines 1322-1341: the children of an item from the m-th key on, then the
\* line of the item delimiter.
itemChildrenAsString(buf, item, m, prefix, lines) ==
  IF m > Len(item)
  THEN [err |-> "",
        lines |-> Append(lines, lineOf(buf, delimElement(E00D, itemDelimMessage(item)),
                                       prefix + 2)),
        item |-> item]
  ELSE IF item[m][1] = xFFFEE000
  THEN itemChildrenAsString(buf, item, m + 1, prefix, lines)
  ELSE itemChildDone(buf, item, m, prefix, lines,
                     getElementAsString(buf, item[m][2], prefix + 4))

\* lines 1300-1341: one item.  An item without the key xFFFEE000 has no item
\* element: itemElement.vl raises a TypeError.
itemAsString(buf, item, prefix) ==
  IF ~HasKey(item, xFFFEE000) THEN [err |-> TypeError, lines |-> <<>>, item |-> item]
  ELSE itemChildrenAsString(buf, Put(item, xFFFEE000, itemElementMarked(item)), 1, prefix,
                            <<lineOf(buf, itemElementMarked(item), prefix + 2)>>)

\* lines 1299-1343, one turn: r is what itemAsString gave for item l.
itemDone(buf, items, l, prefix, lines, r) ==
  IF r.err # ""
  THEN [err |-> r.err, lines |-> lines, items |-> [items EXCEPT ![l] = r.item]]
  ELSE itemsAsString(buf, [items EXCEPT ![l] = r.item], l + 1, prefix, lines \o r.lines)

\* lines 1299-1343: the items of a sequence from the l-th on.
itemsAsString(buf, items, l, prefix, lines) ==
  IF l > Len(items) THEN [err |-> "", lines |-> lines, items |-> items]
  ELSE IF Len(items[l]) = 0 THEN itemsAsString(buf, items, l + 1, prefix, lines)
  ELSE itemDone(buf, items, l, prefix, lines, itemAsString(buf, items[l], prefix))

\* lines 1362-1367: the items of a pixel sequence from the n-th on; each is
\* given the VR 'pi'.
pixItemsAsString(buf, items, n, prefix, lines) ==
  IF n > Len(items) THEN [err |-> "", lines |-> lines, items |-> items]
  ELSE pixItemsAsString(buf, [items EXCEPT ![n].vr = pi], n + 1, prefix,
                        lines \o getElementAsString(buf, [items[n] EXCEPT !.vr = pi],
                                                    prefix + 2).lines)

\* lines 1296-1379: r is what the loop over the items gave, delim the
\* element made up for the sequence delimiter.
sequenceAsString(buf, dicomElement, prefix, r, delim) ==
  AsString(r.err,
           IF r.err # "" THEN <<>>
           ELSE <<lineOf(buf, dicomElement, prefix)>> \o r.lines
                \o <<lineOf(buf, delim, prefix)>>,
           [dicomElement EXCEPT !.value.data = r.items])

\* DicomElementsWrapper.getElementAsString; prefix is the number of spaces.
\* The items of a pixel sequence are elements, not item maps: under the VR SQ
\* they have no key xFFFEE000 either.
getElementAsString(buf, dicomElement, prefix) ==
  IF dicomElement.vr = SQ
  THEN IF isPixSequence(dicomElement)
       THEN AsString(IF dicomElement.value.length > 0 THEN TypeError ELSE "",
                     IF dicomElement.value.length > 0 THEN <<>>
                     ELSE <<lineOf(buf, dicomElement, prefix),
                            lineOf(buf, delimElement(E0DD, sqDelimMessage(dicomElement)),
                                   prefix)>>,
                     dicomElement)
       ELSE sequenceAsString(buf, dicomElement, prefix,
                             itemsAsString(buf, dicomElement.value.data, 1, prefix, <<>>),
                             delimElement(E0DD, sqDelimMessage(dicomElement)))
  ELSE IF isPixSequence(dicomElement)
  THEN sequenceAsString(buf, dicomElement, prefix,
                        pixItemsAsString(buf, dicomElement.value.data, 1, prefix, <<>>),
                        delimElement(E0DD, <<"(SequenceDelimitationItem)">>))
  ELSE AsString("", <<lineOf(buf, dicomElement, prefix)>>, dicomElement)

\* The lines dump writes that are not about an element.
commentLine(text) ==
  [prefix |-> 0, group |-> <<>>, element |-> <<>>, vr |-> <<>>, text |-> text]

\* dwv.dicom.getTransferSyntaxName
getTransferSyntaxName(syntax) ==
  IF syntax = ImplicitVRLittleEndian THEN "Little Endian Implicit"
  ELSE IF syntax = ExplicitVRLittleEndian THEN "Little Endian Explicit"
  ELSE IF syntax = DeflatedExplicitVRLittleEndian THEN "Little Endian Deflated Explicit"
  ELSE IF syntax = ExplicitVRBigEndian THEN "Big Endian Explicit"
  ELSE IF isJpegBaselineTransferSyntax(syntax)
  THEN IF syntax = JpegBaseline50 THEN "JPEG Baseline" ELSE "JPEG Extended, Process 2+4"
  ELSE IF isJpegLosslessTransferSyntax(syntax)
  THEN IF syntax = JpegLossless57 THEN "JPEG Lossless, Nonhierarchical (Processes 14)"
       ELSE "JPEG Lossless, Non-hierarchical, 1st Order Prediction"
  ELSE IF isJpegNonSupportedTransferSyntax(syntax) THEN "Non supported JPEG"
  ELSE IF isJpeglsTransferSyntax(syntax) THEN "JPEG-LS"
  ELSE IF isJpeg2000TransferSyntax(syntax)
  THEN IF syntax = Uid(<<".","4",".","9","1">>) THEN "JPEG 2000 (Lossless or Lossy)"
       ELSE "JPEG 2000 (Lossless only)"
  ELSE IF syntax = Mpeg2 THEN "MPEG2"
  ELSE IF syntax = Rle THEN "RLE"
  ELSE "unknown"

\* What dump gives: the exception raised (or ""), the lines of the string
\* returned, and the wrapped map as the call leaves it.
Dumped(e, lines, wrapped) == [err |-> e, lines |-> lines, wrapped |-> wrapped]

RECURSIVE dumpFrom(_, _, _, _, _)

\* lines 1128: r is what getElementAsString gave for the element of key i.
dumpElementDone(buf, wrapped, i, checkHeader, lines, r) ==
  IF r.err # "" THEN Dumped(r.err, <<>>, [wrapped EXCEPT ![i][2] = r.el])
  ELSE dumpFrom(buf, [wrapped EXCEPT ![i][2] = r.el], i + 1, checkHeader, lines \o r.lines)

\* lines 1119-1127: the header of the data set, before its first element.
dataSetHeader(wrapped) ==
  <<commentLine(<<>>), commentLine(<<"# Dicom-Data-Set">>),
    commentLine(<<"# Used TransferSyntax: ",
                  getTransferSyntaxName(cleanString(Get(wrapped, x00020010).value.data[1]))>>)>>

\* lines 1117-1129: the loop over the keys, from the i-th on.
dumpFrom(buf, wrapped, i, checkHeader, lines) ==
  IF i > Len(wrapped) THEN Dumped("", lines, wrapped)
  ELSE IF checkHeader /\ wrapped[i][2].tag.group # Hex4("0","0","0","2")
  THEN IF ~HasKey(wrapped, x00020010) \/ ~IsStringValue(Get(wrapped, x00020010))
       THEN Dumped(TypeError, <<>>, wrapped)
       ELSE dumpElementDone(buf, wrapped, i, FALSE, lines \o dataSetHeader(wrapped),
                            getElementAsString(buf, wrapped[i][2], 0))
  ELSE dumpElementDone(buf, wrapped, i, checkHeader, lines,
                       getElementAsString(buf, wrapped[i][2], 0))

\* DicomElementsWrapper.dump
dump(buf, wrapped) ==
  dumpFrom(buf, wrapped, 1, TRUE,
           <<commentLine(<<>>), commentLine(<<"# Dicom-File-Format">>), commentLine(<<>>),
             commentLine(<<"# Dicom-Meta-Information-Header">>),
             commentLine(<<"# Used TransferSyntax: ",
                           IF isNativeLittleEndian THEN "Little Endian Explicit"
                           ELSE "NOT Little Endian Explicit">>)>>)

----------------------------------------------------------------------------
(* The calls of the wrapper of a parser's element map, after parse *)

\* A second PatientName, and a sequence of explicit length whose only "item"
\* is a bare item delimiter.
OtherPatientName == Val(\H0010, \H0010, PN, 1, S(<<"X">>), 0, FALSE)
StrayDelimiterSequence == Val(\H0040, \H0275, SQ, 2, <<65534, 57357, 0, 0>>, 0, FALSE)

\* The data sets of the files whose elements are looked up and dumped.
ViewDataSets ==
  { <<>>,
    <<PatientName, BitsAllocated(8), OtherPatientName>>,
    <<Rows, SequenceOf(MaxItems, TRUE, TRUE, PatientName, 0), EncapsulatedPixelData(MaxFrags)>>,
    <<SequenceOf(1, FALSE, FALSE, Rows, 0), Rows, PrivateUN>>,
    <<PatientName, NestedSequence>>,
    <<BitsAllocated(16), NativePixelData>>,
    <<PatientName, StrayDelimiterSequence>> }

ViewBuffers ==
  { File(DICM, MetaBytes(<<TransferSyntaxUID(c.uid)>>, <<>>),
         EncAll(ds, c.implicit, c.littleEndian)) :
      c \in Encodings, ds \in ViewDataSets }

\* The keys looked up: those of the map, and one it does not hold.
KeysTried == { dicomElements[i][1] : i \in 1..Len(dicomElements) } \cup {xFFFEE000}

NamesTried == {"PatientName", "PixelData", "TransferSyntaxUID", "NoSuchName"}

\* parser.getDicomElements() wraps this.dicomElements itself (line 574): what
\* a method of the wrapper writes, it writes in the parser's map.
WrapperCall(op, args, r) ==
  /\ pc = "done"
  /\ returned' = [op |-> op, args |-> args, err |-> "", value |-> r]
  /\ UNCHANGED <<buffer, pc, offset, implicit, dataLittleEndian, metaEnd, dataElement,
                 lastCall, dicomElements, pixelBuffer, error, input, parses, logical>>

GetFromKey ==
  \E k \in KeysTried, asArray \in BOOLEAN :
    WrapperCall("getFromKey", [key |-> k, asArray |-> asArray],
                getFromKey(dicomElements, buffer, k, asArray))

\* getFromGroupElement with the group and the element of a key of the map:
\* as splitGroupElementKey gives them, or as the element's tag holds them.
GetFromGroupElement ==
  \E i \in 1..Len(dicomElements) :
    \/ WrapperCall("getFromGroupElement",
                   [key |-> dicomElements[i][1], split |-> TRUE],
                   getFromGroupElement(dicomElements, buffer,
                                       splitGroupElementKey(dicomElements[i][1]).group,
                                       splitGroupElementKey(dicomElements[i][1]).element))
    \/ WrapperCall("getFromGroupElement",
                   [key |-> dicomElements[i][1], split |-> FALSE],
                   getFromGroupElement(dicomElements, buffer,
                                       dicomElements[i][2].tag.group,
                                       dicomElements[i][2].tag.element))

GetFromName ==
  \E name \in NamesTried :
    WrapperCall("getFromName", [name |-> name], getFromName(dicomElements, buffer, name))

DumpToTable == WrapperCall("dumpToTable", <<>>, dumpToTable(dicomElements))

Dump ==
  /\ pc = "done"
  /\ returned' = [op |-> "dump", args |-> <<>>, err |-> dump(buffer, dicomElements).err,
                  value |-> dump(buffer, dicomElements).lines]
  /\ dicomElements' = dump(buffer, dicomElements).wrapped
  /\ UNCHANGED <<buffer, pc, offset, implicit, dataLittleEndian, metaEnd, dataElement,
                 lastCall, pixelBuffer, error, input, parses, logical>>

InitView == Constructed(ViewBuffers)

NextView ==
  \/ ParseMagic
  \/ ParseMetaLength
  \/ ParseMetaElement
  \/ ParseSyntax
  \/ ParseDataElement
  \/ ParsePixelBuffer
  \/ GetFromKey
  \/ GetFromGroupElement
  \/ GetFromName
  \/ DumpToTable
  \/ Dump

SpecView == InitView /\ [][NextView]_vars

----------------------------------------------------------------------------
(* C11 *)

\* Every element the element map holds, the elements of its item maps and of
\* its fragment lists included.
StoredElements ==
  Flatten([i \in 1..Len(dicomElements) |-> Decoded(dicomElements[i][2])])

\* C11: no element stored in the element map, in an item map or in a fragment
\* list has the VR "ox".
C11_NoOxStored ==
  \A i \in 1..Len(StoredElements) : StoredElements[i].vr # ox

----------------------------------------------------------------------------
(* C12 *)

\* The item maps of the sequences stored.
StoredItemMaps ==
  Flatten([i \in 1..Len(StoredElements) |->
             IF IsSequence(StoredElements[i]) THEN StoredElements[i].value.data
             ELSE <<>>])

\* C12: no delimiter is stored as an element of the data set, the first
\* element of an item map is the item FFFE,E000, and no item delimiter is a
\* child of an item of explicit length.
C12_MalformedFraming ==
  /\ \A i \in 1..Len(dicomElements) :
       dicomElements[i][1] \notin {xFFFEE00D, xFFFEE0DD}
  /\ \A i \in 1..Len(StoredItemMaps) :
       LET m == StoredItemMaps[i]
       IN  m # EmptyObject =>
             /\ m[1][1] = xFFFEE000
             /\ ItemElement(m).vl # UndefinedLength => ~HasKey(m, xFFFEE00D)

----------------------------------------------------------------------------
(* C13 *)

\* C13: when parse has raised, the element map and the pixel buffer are as
\* they were before the call, on a parser just constructed: empty.
C13_NoPartialResult ==
  pc = "error" => dicomElements = EmptyObject /\ pixelBuffer = Array(<<>>)

----------------------------------------------------------------------------
(* C14 *)

\* C14: when a call of parse on a parser that has parsed before ends, the
\* parser holds the element map and the pixel buffer that a parser just
\* constructed holds after parse of the same buffer.
C14_StateLocalToParse ==
  ParseEnded /\ parses > 1 =>
    /\ dicomElements = parseFresh(input).dicomElements
    /\ pixelBuffer = parseFresh(input).pixelBuffer

----------------------------------------------------------------------------
(* C15 *)

\* C15: no step of parse writes to the buffer.
C15_BufferNotWritten == [][buffer' = buffer]_vars

----------------------------------------------------------------------------
(* C16 *)

\* C16: no method of the wrapper changes an element of the wrapped map.
C16_ViewReadOnly ==
  [][(pc = "done" /\ pc' = "done") => dicomElements' = dicomElements]_vars

----------------------------------------------------------------------------
(* C17 *)

\* Two lookups returned the same.
SameLookup(a, b) ==
  /\ a.isNull = b.isNull
  /\ a.single = b.single
  /\ a.value = b.value

\* C17: for a key k of the element map, getGroupElementKey of the group and
\* the element that splitGroupElementKey gives for k is k, and
\* getFromGroupElement of them returns what getFromKey(k) returns.
C17_KeyRoundTrip ==
  (returned.op = "getFromGroupElement" /\ returned.args.split) =>
    /\ getGroupElementKey(splitGroupElementKey(returned.args.key).group,
                          splitGroupElementKey(returned.args.key).element)
         = returned.args.key
    /\ SameLookup(returned.value,
                  getFromKey(dicomElements, buffer, returned.args.key, FALSE))

----------------------------------------------------------------------------
(* C18 *)

KeysUnique ==
  \A i, j \in 1..Len(dicomElements) :
    dicomElements[i][1] = dicomElements[j][1] => i = j

\* A step of parse that changes the element map stores the element read at
\* the current offset: last under a new key, in the place of the element it
\* overwrites under a key the map holds; the other entries stay.
InsertedInWireOrder ==
  (pc # "done" /\ dicomElements' # dicomElements) =>
    /\ startOffset(dataElement') = offset
    /\ IF \E i \in 1..Len(dicomElements) : dicomElements[i][1] = dataElement'.tag.name
       THEN /\ Len(dicomElements') = Len(dicomElements)
            /\ \A i \in 1..Len(dicomElements) :
                 /\ dicomElements'[i][1] = dicomElements[i][1]
                 /\ dicomElements'[i][2] =
                      IF dicomElements[i][1] = dataElement'.tag.name THEN dataElement'
                      ELSE dicomElements[i][2]
       ELSE dicomElements' = Append(dicomElements, <<dataElement'.tag.name, dataElement'>>)

\* The row or line is about the i-th key of the map.
AboutKey(row, i) ==
  /\ getGroupElementKey(row.group, row.element) = dicomElements[i][1]
  /\ row.vr = dicomElements[i][2].vr

\* dumpToTable returned one row for each key, in the order of the keys.
TableInKeyOrder ==
  returned.op = "dumpToTable" =>
    /\ Len(returned.value) = Len(dicomElements)
    /\ \A i \in 1..Len(dicomElements) :
         /\ AboutKey(returned.value[i], i)
         /\ returned.value[i].vl = dicomElements[i][2].vl

\* The lines of a dump that are about an element, a delimiter or an item.
LinesOfElements == SelectSeq(returned.value, LAMBDA ln : ln.group # <<>>)

\* The lines of a dump that are about an element of the map: not indented,
\* and not a delimiter the dump makes up.
LinesOfKeys == SelectSeq(returned.value, LAMBDA ln : ln.group # <<>> /\ ln.prefix = 0 /\ ln.vr # na)

DumpOneLinePerKey ==
  (returned.op = "dump" /\ returned.err = "") =>
    /\ Len(LinesOfElements) = Len(dicomElements)
    /\ \A i \in 1..Len(dicomElements) : AboutKey(LinesOfElements[i], i)

DumpOneEntryPerKey ==
  (returned.op = "dump" /\ returned.err = "") =>
    /\ Len(LinesOfKeys) = Len(dicomElements)
    /\ \A i \in 1..Len(dicomElements) : AboutKey(LinesOfKeys[i], i)

----------------------------------------------------------------------------
(* Implicit and explicit VR little endian files of one data set *)

\* A private element written with a VR of the standard.
PrivateLO == Val(\H0009, \H0012, LO, 1, S(<<"A", "B">>), 0, FALSE)

\* A sequence whose item holds an image of its own: BitsAllocated n, then
\* the pixel data.
ImageInItem(n) ==
  Sq(\H0040, \H0275, TRUE, <<Item(TRUE, <<BitsAllocated(n), NativePixelData>>, 0)>>, 0)

\* The data sets written in both encodings: those of the pool, a private
\* element alone or after a pool element, and an image in an item alone or
\* after BitsAllocated.
LogicalDataSets ==
  { [i \in 1..Len(ds) |-> Pool[ds[i]]] : ds \in DataSets }
  \cup { <<PrivateLO>>, <<PatientName, PrivateLO>>,
          <<ImageInItem(8)>>, <<ImageInItem(16)>>,
          <<BitsAllocated(8), ImageInItem(16)>>, <<BitsAllocated(16), ImageInItem(8)>> }

EncodedFile(ds, uid, impl) ==
  File(DICM, MetaBytes(<<TransferSyntaxUID(uid)>>, <<>>), EncAll(ds, impl, TRUE))

ImplicitFile(ds) == EncodedFile(ds, ImplicitVRLittleEndian, TRUE)

ExplicitFile(ds) == EncodedFile(ds, ExplicitVRLittleEndian, FALSE)

InitEncodings == \E ds \in LogicalDataSets : ConstructedOn(ImplicitFile(ds), ds)

NextEncodings ==
  \/ ParseMagic
  \/ ParseMetaLength
  \/ ParseMetaElement
  \/ ParseSyntax
  \/ ParseDataElement
  \/ ParsePixelBuffer

\* One parse of the implicit VR little endian file of a data set.
SpecEncodings == InitEncodings /\ [][NextEncodings]_vars

----------------------------------------------------------------------------
(* C19 *)

\* A group or an element number as readHex writes it.
hexOf(n) ==
  S(<<"0", "x">>) \o substr(S(<<"0","0","0","0">>), 0, 4 - Len(toString16(n)))
  \o toUpperCase(toString16(n))

\* The dictionary's VR of a tag is the marker of OB or OW.
AmbiguousInDictionary(tag) ==
  dictHas(tag.group, tag.element) /\ dictEntry(tag.group, tag.element)[1] = ox

\* The vr fields agree, or the dictionary's VR of the tag is ambiguous.
SameVR(a, b) == a.vr = b.vr \/ AmbiguousInDictionary(a.tag)

\* The elements a (decoded from bufA) and b (decoded from bufB) have the same
\* tag, the same vr up to the ambiguous tags and the same value: the same
\* fragments, the same items with the same children (the item elements
\* apart), or the same type of array with the same entries.
RECURSIVE SameElement(_, _, _, _)
SameElement(bufA, a, bufB, b) ==
  /\ a.tag.name = b.tag.name
  /\ SameVR(a, b)
  /\ IF IsPixelItems(a) \/ IsPixelItems(b)
     THEN /\ IsPixelItems(a) /\ IsPixelItems(b)
          /\ a.value.length = b.value.length
          /\ \A i \in 1..a.value.length :
               SameElement(bufA, a.value.data[i], bufB, b.value.data[i])
     ELSE IF a.vr = SQ \/ b.vr = SQ
     THEN /\ a.vr = SQ /\ b.vr = SQ
          /\ a.value.length = b.value.length
          /\ \A i \in 1..a.value.length :
               /\ Keys(a.value.data[i]) = Keys(b.value.data[i])
               /\ \A j \in 1..Len(a.value.data[i]) :
                    \/ a.value.data[i][j][1] = xFFFEE000
                    \/ SameElement(bufA, a.value.data[i][j][2], bufB, b.value.data[i][j][2])
     ELSE /\ a.value.type = b.value.type
          /\ Elements(bufA, a.value) = Elements(bufB, b.value)

\* The key is of group 0002, the file meta information, which holds the
\* transfer syntax of the file and the length of the group.
IsMetaKey(key) == substr(key, 0, 5) = S(<<"x", "0", "0", "0", "2">>)

\* The entries of an element map that are of the data set.
DataSetOf(map) == SelectSeq(map, LAMBDA entry : ~IsMetaKey(entry[1]))

\* The element maps have the same keys in the same order and, key by key, the
\* same element.
SameMaps(bufA, mapA, bufB, mapB) ==
  /\ Keys(mapA) = Keys(mapB)
  /\ \A i \in 1..Len(mapA) : SameElement(bufA, mapA[i][2], bufB, mapB[i][2])

\* The same, the file meta information apart.
SameDataSets(bufA, mapA, bufB, mapB) ==
  SameMaps(bufA, DataSetOf(mapA), bufB, DataSetOf(mapB))

\* What parse gives on the explicit VR little endian file of the data set.
ExplicitParse == parseFresh(ExplicitFile(logical))

\* C19 as the spec states it: when the parse of the implicit VR little endian
\* file of a data set has returned, the parse of the explicit VR little endian
\* file of the same data set returns too, and the two element maps have the
\* same keys and, for every key, the same decoded value, the keys of the file
\* meta information apart; the vr differs only where the dictionary's VR is
\* ambiguous.
C19_SameAsExplicit ==
  pc = "done" =>
    /\ ExplicitParse.err = ""
    /\ SameDataSets(buffer, dicomElements, ExplicitParse.buf, ExplicitParse.dicomElements)

\* The explicit encoding writes the element with the VR the dictionary gives
\* its tag (OW, or OB for fragments, where the dictionary has the marker of
\* OB or OW), or with UN when the dictionary does not hold the tag; the
\* elements of the items of a sequence likewise.
RECURSIVE WrittenWithDictionaryVR(_)
WrittenWithDictionaryVR(el) ==
  CASE el.k = "val" ->
         IF dictHas(hexOf(el.g), hexOf(el.e))
         THEN \/ dictEntry(hexOf(el.g), hexOf(el.e))[1] = el.vr
              \/ dictEntry(hexOf(el.g), hexOf(el.e))[1] = ox /\ el.vr = OW
         ELSE el.vr = UN
    [] el.k = "sq" ->
         /\ dictHas(hexOf(el.g), hexOf(el.e))
         /\ dictEntry(hexOf(el.g), hexOf(el.e))[1] = SQ
         /\ \A i \in 1..Len(el.items) : \A j \in 1..Len(el.items[i].els) :
              WrittenWithDictionaryVR(el.items[i].els[j])
    [] el.k = "pix" -> el.vr = OB
    [] el.k = "delim" -> TRUE

DictionaryVRs == \A i \in 1..Len(logical) : WrittenWithDictionaryVR(logical[i])

\* Every length written for the element, for its items and for their
\* elements is the length of what it holds.
RECURSIVE LengthAsHeld(_)
LengthAsHeld(el) ==
  CASE el.k = "val" -> el.skew = 0
    [] el.k = "sq" ->
         /\ el.skew = 0
         /\ \A i \in 1..Len(el.items) :
              /\ el.items[i].skew = 0
              /\ \A j \in 1..Len(el.items[i].els) : LengthAsHeld(el.items[i].els[j])
    [] OTHER -> TRUE

LengthsAsHeld == \A i \in 1..Len(logical) : LengthAsHeld(logical[i])

\* C19, amended: for a data set whose encodings write every length as the
\* length of what it holds and whose explicit encoding writes every element
\* with the dictionary's VR of its tag, or with UN for a tag the dictionary
\* does not hold, the two parses return element maps with the same keys of
\* the data set and, key by key, the same value (the item elements apart); the
\* vr differs only where the dictionary's VR is ambiguous.
C19_SameAsExplicitDictionaryVRs ==
  (pc = "done" /\ DictionaryVRs /\ LengthsAsHeld) =>
    /\ ExplicitParse.err = ""
    /\ SameDataSets(buffer, dicomElements, ExplicitParse.buf, ExplicitParse.dicomElements)

\* The implicit parse of native pixel data after BitsAllocated has returned:
\* the vr fields differ (ox, OW) and the values agree.
C19_Witness ==
  /\ pc = "done"
  /\ DictionaryVRs
  /\ LengthsAsHeld
  /\ logical = <<BitsAllocated(16), NativePixelData>>
  /\ Get(dicomElements, x7FE00010).vr = ox
  /\ Get(ExplicitParse.dicomElements, x7FE00010).vr = OW

----------------------------------------------------------------------------
(* C20 *)

\* Before the i-th of the elements stored was read, the parse decoded a
\* BitsAllocated element whose first value is 8.
EightDecodedBefore(i) ==
  \E j \in 1..(i - 1) :
    /\ StoredElements[j].tag.name = x00280100
    /\ FirstIsEight(buffer, StoredElements[j].value)

\* C20: an element of VR OW, OF or ox that is not undefined-length pixel data
\* has a Uint8Array of VL entries as its value exactly when a BitsAllocated
\* element of value 8 was decoded before it in the same parse, and a
\* Uint16Array of VL / 2 entries otherwise; it ends VL bytes after its header.
C20_WidthFromBitsAllocated ==
  \A i \in 1..Len(StoredElements) :
    (StoredElements[i].vr \in {OW, OF, ox} /\ ~IsPixelItems(StoredElements[i])) =>
      /\ IF EightDecodedBefore(i)
         THEN /\ StoredElements[i].value.type = "Uint8Array"
              /\ StoredElements[i].value.length = StoredElements[i].vl
         ELSE /\ StoredElements[i].value.type = "Uint16Array"
              /\ StoredElements[i].value.length = StoredElements[i].vl \div 2
      /\ StoredElements[i].endOffset
           = valueStart(StoredElements[i], implicit) + StoredElements[i].vl

----------------------------------------------------------------------------
(* The integer array readers of a DataReader *)

\* The buffers read: bytes whose high bit is set and bytes whose high bit is
\* clear, at even and at odd offsets; the second starts with 02 00.
ReaderBuffers ==
  { <<1, 128, 255, 2, 127, 254, 3, 0, 130>>,
    <<2, 0, 129, 255, 255, 255, 255, 4, 5, 6>> }

IntegerReaders == {"Uint16Array", "Int16Array", "Uint32Array", "Int32Array"}

\* reader = new DataReader(buffer, isLittleEndian); reader.read<type>(byteOffset, size),
\* the one call made on the buffer: the call is kept in returned, the buffer
\* is as the reader leaves it.
ReadArray ==
  \E type \in IntegerReaders, isLittleEndian \in BOOLEAN,
     byteOffset \in 0..Len(buffer), size \in 0..Len(buffer) :
    /\ returned.op = NoCall.op
    /\ byteOffset + size <= Len(buffer)
    /\ returned' = [op |-> type,
                    args |-> <<byteOffset, size, isLittleEndian>>,
                    err |-> readTypedArray(buffer, isLittleEndian, type, byteOffset, size).err,
                    value |-> readTypedArray(buffer, isLittleEndian, type, byteOffset, size).value]
    /\ buffer' = readTypedArray(buffer, isLittleEndian, type, byteOffset, size).buf
    /\ UNCHANGED <<pc, offset, implicit, dataLittleEndian, metaEnd, dataElement,
                   lastCall, dicomElements, pixelBuffer, error, input, parses, logical>>

InitReaders == Constructed(ReaderBuffers)

NextReaders == ReadArray

SpecReaders == InitReaders /\ [][NextReaders]_vars

----------------------------------------------------------------------------
(* C21 *)

\* DataView.getUint16, getInt16, getUint32, getInt32: the scalar of the width
\* and the signedness of the array type.
ScalarAt(buf, type, o, le) ==
  CASE type = "Uint16Array" -> getUint16(buf, o, le)
    [] type = "Int16Array" -> getInt16(buf, o, le)
    [] type = "Uint32Array" -> getUint32(buf, o, le)
    [] type = "Int32Array" -> getInt32(buf, o, le)

\* The call reader.read<type>(byteOffset, size) on buf, of a reader of the
\* endianness le, left res = [err, value] and the buffer after: it did not
\* raise, the array is of the type, and its entry i is the scalar at
\* byteOffset + i * width of buf as it was before the call.
ReadAsScalars(buf, type, byteOffset, size, le, res, after) ==
  /\ res.err = ""
  /\ res.value.type = type
  /\ res.value.length = size \div BYTES_PER_ELEMENT(type)
  /\ \A i \in 0..(res.value.length - 1) :
       Elements(after, res.value)[i + 1]
         = ScalarAt(buf, type, byteOffset + i * BYTES_PER_ELEMENT(type), le)

\* C21: every call of an integer array reader on bytes of the buffer, at an
\* aligned or a misaligned offset, in either endianness, returns without
\* raising an array whose entry i is the scalar of that width and signedness
\* read at offset + i * width in the reader's endianness.
C21_ArrayReaders ==
  [][returned' # returned =>
       ReadAsScalars(buffer, returned'.op, returned'.args[1], returned'.args[2],
                     returned'.args[3], returned', buffer')]_vars

----------------------------------------------------------------------------
(* The test of the retired JPEG transfer syntaxes, called on a UID *)

Digits == S(<<"0", "1", "2", "3", "4", "5", "6", "7", "8", "9">>)

\* The UIDs 1.2.840.10008.1.2.4.00 to 1.2.840.10008.1.2.4.99.
JpegFamilyUids ==
  { Uid(<<".", "4", ".">>) \o <<Digits[a], Digits[b]>> : a \in 1..10, b \in 1..10 }

\* The UIDs the test is called on: the transfer syntaxes parse knows, and
\* every UID of two digits after 1.2.840.10008.1.2.4.
UidsTested ==
  JpegFamilyUids
  \cup { ImplicitVRLittleEndian, ExplicitVRLittleEndian, DeflatedExplicitVRLittleEndian,
         ExplicitVRBigEndian, Mpeg2, Rle }

\* dwv.dicom.isJpegNonSupportedTransferSyntax(uid), the one call made: the
\* call is kept in returned.
IsJpegNonSupported ==
  \E uid \in UidsTested :
    /\ returned.op = NoCall.op
    /\ returned' = [op |-> "isJpegNonSupportedTransferSyntax", args |-> <<uid>>,
                    err |-> "", value |-> isJpegNonSupportedTransferSyntax(uid)]
    /\ UNCHANGED <<buffer, pc, offset, implicit, dataLittleEndian, metaEnd, dataElement,
                   lastCall, dicomElements, pixelBuffer, error, input, parses, logical>>

InitSyntaxTest == Constructed({<<>>})

NextSyntaxTest == IsJpegNonSupported

SpecSyntaxTest == InitSyntaxTest /\ [][NextSyntaxTest]_vars

----------------------------------------------------------------------------
(* C22 *)

\* The UIDs 1.2.840.10008.1.2.4.5x and 1.2.840.10008.1.2.4.6x, x a digit.
Family5x6x ==
  { re \o <<Digits[d]>> : re \in {Regex45, Regex46}, d \in 1..10 }

SupportedJpegUids == {JpegBaseline50, JpegBaseline51, JpegLossless57, JpegLossless70}

\* C22: isJpegNonSupportedTransferSyntax(uid) is true exactly for the UIDs of
\* the .4.5x and .4.6x families that are neither the baseline UIDs (.4.50,
\* .4.51) nor the lossless UIDs (.4.57, .4.70); it is false for .4.50, .4.51
\* and .4.57.
C22_JpegNonSupported ==
  returned.op = "isJpegNonSupportedTransferSyntax" =>
    (returned.value <=> returned.args[1] \in Family5x6x \ SupportedJpegUids)

----------------------------------------------------------------------------
(* parse on files cut short and on files whose lengths run past their end *)

\* A sequence and an item of explicit length that declare more bytes than
\* the file has, and a sequence whose items are empty.
OverlongSequence ==
  Sq(\H0040, \H0275, FALSE, <<Item(FALSE, <<Rows>>, 0)>>, 100)

OverlongItem ==
  Sq(\H0040, \H0275, FALSE, <<Item(FALSE, <<Rows>>, 100)>>, 0)

EmptyItems ==
  Sq(\H0040, \H0275, FALSE, [i \in 1..MaxItems |-> Item(FALSE, <<>>, 0)], 0)

\* The data sets of the files cut.
CutDataSets ==
  { <<PatientName, NestedSequence>>,
    <<SequenceOf(MaxItems, TRUE, TRUE, PatientName, 0)>>,
    <<SequenceOf(MaxItems, FALSE, FALSE, Rows, 0)>>,
    <<SequenceOf(1, FALSE, FALSE, Rows, 0 - 2)>>,
    <<BitsAllocated(16), NativePixelData>>,
    <<EncapsulatedPixelData(MaxFrags)>>,
    <<OverlongSequence, PatientName>>,
    <<OverlongItem, PatientName>>,
    <<EmptyItems>>,
    <<Truncated>>,
    <<Delim(\HE000), Delim(\HE00D), Delim(\HE0DD)>> }

\* The files are written in the two little endian syntaxes.
CutEncodings == { c \in Encodings : c.littleEndian }

WholeFiles ==
  { File(DICM, MetaBytes(<<TransferSyntaxUID(c.uid)>>, <<>>),
         EncAll(ds, c.implicit, c.littleEndian)) :
      c \in CutEncodings, ds \in CutDataSets }

\* Every file, whole and cut after each of its bytes from the magic word on.
CutBuffers ==
  UNION { { SubSeq(f, 1, n) : n \in 128..Len(f) } : f \in WholeFiles }

InitCut == Constructed(CutBuffers)

NextCut ==
  \/ ParseMagic
  \/ ParseMetaLength
  \/ ParseMetaElement
  \/ ParseSyntax
  \/ ParseDataElement
  \/ ParsePixelBuffer

\* parse runs to its end: the code is synchronous, a step that can be taken
\* is taken.
SpecCut == InitCut /\ [][NextCut]_vars /\ WF_vars(NextCut)

----------------------------------------------------------------------------
(* C23 *)

\* Every element the last call of readDataElement decoded, the nested ones
\* included, ends after the offset it was read at.
ElementsAdvance ==
  LastDecoded =>
    \A i \in 1..Len(Decoded(dataElement)) :
      Decoded(dataElement)[i].endOffset > startOffset(Decoded(dataElement)[i])

\* C23: on every buffer, whole or cut, every element readDataElement returns
\* ends after the offset it was read at, and parse ends: it returns or it
\* raises.
C23_Terminates == []ElementsAdvance /\ <>ParseEnded

\* parse has raised a RangeError on a file cut inside an undefined-length
\* sequence, after it stored the element before the sequence.
C23_Witness ==
  /\ pc = "error"
  /\ error = RangeError
  /\ Len(dicomElements) = 3
  /\ \E f \in WholeFiles :
       /\ Len(f) > Len(input)
       /\ input = SubSeq(f, 1, Len(input))
       /\ TagNameAt(input, TRUE, offset) = S(<<"x","0","0","4","0","0","2","7","5">>)
       /\ Len(input) >= offset + 20

====
